---- MODULE Spec2Model ----
(***************************************************************************)
(* A model of the Sudoku solver and generator: the Grid and its mutation   *)
(* primitives (grid.rs), the propagation techniques and the guess search   *)
(* (solver.rs), cell clearing and puzzle generation (generator.rs) and the *)
(* multi-threaded harness (bin/generator.rs).                              *)
(*                                                                         *)
(* A Grid is a record [val, upd]: val maps the 81 cells (x * 9 + y) to a   *)
(* CellValue, upd maps the 27 lines to their do_update flag.  Lines 0..8   *)
(* are the rows, 9..17 the columns, 18..26 the 3x3 sections.               *)
(***************************************************************************)
EXTENDS Integers, Sequences, FiniteSets, TLC

\* ------------------------------------------------------------------------
\* Program constants
\* ------------------------------------------------------------------------
N == 9
B == 3
Digits == 1..N
Cells == 0..(N * N - 1)
Lines == 0..(3 * N - 1)

ROW == 0
COLUMN == 1
SECTION == 2

\* ------------------------------------------------------------------------
\* Loops.  Loop(Step, s, lo, hi) is the state a for-loop over lo..hi-1 ends
\* in when it starts in s and its body takes state s at index k to
\* Step(s, k): Step(...Step(Step(s, lo), lo + 1)..., hi - 1).  The range is
\* split in halves only to keep the evaluation shallow; the iterations are
\* applied in loop order.  A loop that can break carries a flag in its
\* state and its body leaves a state with the flag set unchanged.
\* Evaluated(v) is TRUE, and has v computed before the loop goes on.
\* ------------------------------------------------------------------------
Evaluated(v) == v = v

RECURSIVE Loop(_, _, _, _)
Loop(Step(_, _), s, lo, hi) ==
    IF ~Evaluated(s) \/ hi <= lo THEN s
    ELSE IF hi = lo + 1 THEN Step(s, lo)
    ELSE LET mid == (lo + hi) \div 2
         IN  Loop(Step, Loop(Step, s, lo, mid), mid, hi)

\* ------------------------------------------------------------------------
\* CellValue
\* ------------------------------------------------------------------------
Fixed(d) == [tag |-> "Fixed", digit |-> d, poss |-> {}]
Unknown(p) == [tag |-> "Unknown", digit |-> 0, poss |-> p]
IsFixed(v) == v.tag = "Fixed"
IsUnknown(v) == v.tag = "Unknown"

\* ------------------------------------------------------------------------
\* Geometry of Grid::new: cell (x, y) is pushed to row x, column y and
\* section (x / 3) * 3 + y / 3, in row-major order.
\* ------------------------------------------------------------------------
CellAt(x, y) == x * N + y
CellX(c) == c \div N
CellY(c) == c % N
section_index(x, y) == (x \div B) * B + (y \div B)

RowLine(i) == i
ColumnLine(i) == N + i
SectionLine(i) == 2 * N + i
LineType(l) == l \div N
LineIndex(l) == l % N

cell_row(c) == RowLine(CellX(c))
cell_column(c) == ColumnLine(CellY(c))
cell_section(c) == SectionLine(section_index(CellX(c), CellY(c)))

\* The vec of a line: its nine cells in the order Grid::new pushed them,
\* at the indices 0..8 of Vec::get.
LineVec(l) ==
    [i \in 0..(N - 1) |->
        IF LineType(l) = ROW THEN CellAt(LineIndex(l), i)
        ELSE IF LineType(l) = COLUMN THEN CellAt(i, LineIndex(l))
        ELSE CellAt((LineIndex(l) \div B) * B + (i \div B),
                    (LineIndex(l) % B) * B + (i % B))]

AllLineVecs == [l \in Lines |-> LineVec(l)]
line_get(l, i) == AllLineVecs[l][i]
LineSet(l) == {line_get(l, i) : i \in 0..(N - 1)}

Grid_new ==
    [val |-> [c \in Cells |-> Unknown(Digits)],
     upd |-> [l \in Lines |-> FALSE]]

\* ------------------------------------------------------------------------
\* Cell primitives (grid.rs)
\* ------------------------------------------------------------------------
mark_updates(g, c) ==
    [g EXCEPT !.upd[cell_row(c)] = TRUE,
              !.upd[cell_column(c)] = TRUE,
              !.upd[cell_section(c)] = TRUE]

set_value_exact(g, c, value) ==
    mark_updates([g EXCEPT !.val[c] = value], c)

get_value_possibilities(g, c) == g.val[c].poss

\* A one-element vector becomes Fixed, any other stays Unknown.
FixedIfSingle(possibilities) ==
    IF Cardinality(possibilities) = 1
    THEN Fixed(CHOOSE d \in possibilities : TRUE)
    ELSE Unknown(possibilities)

\* The loop body that fixes a cell left with one possibility, as the
\* lines commented out in process_possibilities would.
process_possibilities_cell_fixing(g, i, l, digit) ==
    IF IsUnknown(g.val[line_get(l, i)])
    THEN set_value_exact(g, line_get(l, i),
             FixedIfSingle(g.val[line_get(l, i)].poss \ {digit}))
    ELSE g

\* The body of the loop of process_possibilities, at index i of line.vec.
process_possibilities_cell(g, i, l, digit) ==
    IF IsUnknown(g.val[line_get(l, i)])
    THEN set_value_exact(g, line_get(l, i),
             Unknown(g.val[line_get(l, i)].poss \ {digit}))
    ELSE g

process_possibilities(g, l, digit) ==
    Loop(LAMBDA s, i : process_possibilities_cell(s, i, l, digit), g, 0, N)

\* Cell::set without the pass over the section.
set_without_section(g, c, digit) ==
    process_possibilities(
        process_possibilities([g EXCEPT !.val[c] = Fixed(digit)],
                              cell_row(c), digit),
        cell_column(c), digit)

\* Cell::set: the value, then the row, the column and the section.
set(g, c, digit) ==
    process_possibilities(
        process_possibilities(
            process_possibilities([g EXCEPT !.val[c] = Fixed(digit)],
                                  cell_row(c), digit),
            cell_column(c), digit),
        cell_section(c), digit)

set_value(g, c, value) ==
    IF IsFixed(value) THEN set(g, c, value.digit)
    ELSE set_value_exact(g, c, value)

\* ------------------------------------------------------------------------
\* Clone for Grid
\* ------------------------------------------------------------------------
\* The first loops of clone_from: the cells x * 9 + y, y within x.
clone_from_cell(new, c, source) == set_value_exact(new, c, source.val[c])

\* The last loop of clone_from: the do_update of row, column, section i.
clone_from_flags(new, i, source) ==
    [new EXCEPT !.upd[RowLine(i)] = source.upd[RowLine(i)],
                !.upd[ColumnLine(i)] = source.upd[ColumnLine(i)],
                !.upd[SectionLine(i)] = source.upd[SectionLine(i)]]

clone_from(self, source) ==
    Loop(LAMBDA s, i : clone_from_flags(s, i, source),
         Loop(LAMBDA s, c : clone_from_cell(s, c, source), self, 0, N * N),
         0, N)

clone(g) == clone_from(Grid_new, g)

\* ------------------------------------------------------------------------
\* SolveStatus, SolveController, SolveStatistics (solver.rs)
\* ------------------------------------------------------------------------
Complete(u) == [tag |-> "Complete", uniq |-> u]
Unfinished == [tag |-> "Unfinished", uniq |-> "None"]
Invalid == [tag |-> "Invalid", uniq |-> "None"]
\* A panic!/expect that aborts the call.
Panic == [tag |-> "Panic", uniq |-> "None"]
IsComplete(s) == s.tag = "Complete"

SolveStatistics_new ==
    [singles |-> 0, hidden_singles |-> 0, possibility_groups |-> 0,
     useful_constraints |-> 0, guesses |-> 0]

SolveStatistics_increment(st, action) ==
    IF action = "Single" THEN [st EXCEPT !.singles = @ + 1]
    ELSE IF action = "HiddenSingle" THEN [st EXCEPT !.hidden_singles = @ + 1]
    ELSE IF action = "PossibilityGroup" THEN [st EXCEPT !.possibility_groups = @ + 1]
    ELSE IF action = "UsefulConstraints" THEN [st EXCEPT !.useful_constraints = @ + 1]
    ELSE [st EXCEPT !.guesses = @ + 1]

\* SolveStatus::increment without the step from Unique to NotUnique.
increment_keeps_unique(self, additional_status) ==
    IF self.tag = "Complete" THEN self
    ELSE IF self.tag = "Unfinished"
    THEN IF additional_status.tag = "Invalid" THEN Unfinished
         ELSE additional_status
    ELSE Panic

\* SolveStatus::increment; increment on Invalid panics.
increment(self, additional_status) ==
    IF self.tag = "Complete"
    THEN IF self.uniq = "None" THEN Complete("None")
         ELSE IF self.uniq = "NotUnique" THEN Complete("NotUnique")
         ELSE IF additional_status.tag = "Complete" THEN Complete("NotUnique")
         ELSE Complete("Unique")
    ELSE IF self.tag = "Unfinished"
    THEN IF additional_status.tag = "Invalid" THEN Unfinished
         ELSE additional_status
    ELSE Panic

SolveController(u, s, h, p, c, m) ==
    [determine_uniqueness |-> u, search_singles |-> s,
     search_hidden_singles |-> h, find_possibility_groups |-> p,
     search_useful_constraint |-> c, make_guesses |-> m]

\* What a technique returns: the grid it left, made_change, and whether it
\* panicked.
Change(g, made, panic) == [g |-> g, made |-> made, panic |-> panic]
NoChange(g) == Change(g, FALSE, FALSE)

\* ------------------------------------------------------------------------
\* search_single_possibility
\* ------------------------------------------------------------------------
\* The loop body at index i; r is the Change so far.
search_single_possibility_cell(r, i, l) ==
    IF /\ IsUnknown(r.g.val[line_get(l, i)])
       /\ Cardinality(r.g.val[line_get(l, i)].poss) = 1
    THEN Change(set_value(r.g, line_get(l, i),
                    FixedIfSingle(r.g.val[line_get(l, i)].poss)),
                TRUE, FALSE)
    ELSE r

search_single_possibility(g, l) ==
    Loop(LAMBDA r, i : search_single_possibility_cell(r, i, l),
         NoChange(g), 0, N)

\* ------------------------------------------------------------------------
\* search_hidden_single
\* ------------------------------------------------------------------------
CountNone == [tag |-> "None", cell |-> 0]
CountOne(c) == [tag |-> "One", cell |-> c]
CountMany == [tag |-> "Many", cell |-> 0]

\* A count that never reaches Many.
Count_increment_one(self, c) ==
    IF self.tag = "None" THEN CountOne(c) ELSE self

Count_increment(self, c) ==
    IF self.tag = "None" THEN CountOne(c) ELSE CountMany

\* The first loop, at index i of line.vec: the counts of the cell's digits.
hidden_single_count_cell(counts, i, g, l) ==
    IF IsUnknown(g.val[line_get(l, i)])
    THEN [digit \in Digits |->
             IF digit \in g.val[line_get(l, i)].poss
             THEN Count_increment(counts[digit], line_get(l, i))
             ELSE counts[digit]]
    ELSE counts

hidden_single_counts(g, l) ==
    Loop(LAMBDA s, i : hidden_single_count_cell(s, i, g, l),
         [digit \in Digits |-> CountNone], 0, N)

\* The second loop, at one digit: set the cell counted One.
hidden_single_set(r, digit, counts) ==
    IF counts[digit].tag = "One"
    THEN Change(set(r.g, counts[digit].cell, digit), TRUE, FALSE)
    ELSE r

hidden_single_apply(g, counts) ==
    Loop(LAMBDA r, digit : hidden_single_set(r, digit, counts),
         NoChange(g), 1, N + 1)

search_hidden_single(g, l) == hidden_single_apply(g, hidden_single_counts(g, l))

\* ------------------------------------------------------------------------
\* process_possibility_groups: FauxCell, FauxLine, bisect_possibility_groups
\* ------------------------------------------------------------------------
FauxCell(i, p) == [index |-> i, possibilities |-> p, in_group |-> FALSE]

num_in_group(faux_line) ==
    Cardinality({k \in 1..Len(faux_line) : faux_line[k].in_group})

num_out_group(faux_line) == Len(faux_line) - num_in_group(faux_line)

\* <Setup>, the loop body at index i: push the Unknown cells of interest.
faux_line_push(faux_line, i, g, l, cells_of_interest) ==
    IF i \notin cells_of_interest \/ IsFixed(g.val[line_get(l, i)])
    THEN faux_line
    ELSE Append(faux_line, FauxCell(i, g.val[line_get(l, i)].poss))

faux_line_setup(g, l, cells_of_interest) ==
    Loop(LAMBDA s, i : faux_line_push(s, i, g, l, cells_of_interest),
         <<>>, 0, N)

\* Step 1: the first out-group cell of least len.
smallest_faux_cell(faux_line) ==
    CHOOSE k \in 1..Len(faux_line) :
        /\ ~faux_line[k].in_group
        /\ \A j \in 1..Len(faux_line) :
              ~faux_line[j].in_group =>
                  \/ Cardinality(faux_line[j].possibilities)
                        > Cardinality(faux_line[k].possibilities)
                  \/ (Cardinality(faux_line[j].possibilities)
                        = Cardinality(faux_line[k].possibilities) /\ j >= k)

\* Steps 1 and 3 for the chosen cell s: s joins the in-group and its
\* possibilities leave the cells still out of the group.
bisect_move(faux_line, s) ==
    [k \in 1..Len(faux_line) |->
        IF k = s THEN [faux_line[k] EXCEPT !.in_group = TRUE]
        ELSE IF ~faux_line[k].in_group
        THEN [faux_line[k] EXCEPT
                 !.possibilities = @ \ faux_line[s].possibilities]
        ELSE faux_line[k]]

\* A loop that finishes with the first cell it moves, whatever the count.
bisect_step_first_cell(faux_line, count, s) == bisect_move(faux_line, s)

\* The do-while loop (steps 1-4); yields the faux line it ends with.
RECURSIVE bisect_loop(_, _)
RECURSIVE bisect_step(_, _, _)
bisect_step(faux_line, count, s) ==
    IF num_in_group(bisect_move(faux_line, s))
          = count + Cardinality(faux_line[s].possibilities)
    THEN bisect_move(faux_line, s)
    ELSE bisect_loop(bisect_move(faux_line, s),
                     count + Cardinality(faux_line[s].possibilities))

bisect_loop(faux_line, count) ==
    IF num_out_group(faux_line) = 0 THEN faux_line
    ELSE bisect_step(faux_line, count, smallest_faux_cell(faux_line))

group_possibilities(faux_line, in_group) ==
    UNION {faux_line[k].possibilities :
              k \in {j \in 1..Len(faux_line) : faux_line[j].in_group = in_group}}

\* "Now to apply this to the real cells": the loop body for faux_cell, the
\* cell at position k of the faux line; r is the Change so far.
bisect_apply_cell(r, faux_cell, l, in_poss, out_poss) ==
    IF r.panic THEN r
    ELSE IF IsFixed(r.g.val[line_get(l, faux_cell.index)])
    THEN Change(r.g, r.made, TRUE)
    ELSE IF r.g.val[line_get(l, faux_cell.index)].poss
               \cap (IF faux_cell.in_group THEN out_poss ELSE in_poss) # {}
    THEN Change(set_value(r.g, line_get(l, faux_cell.index),
                    FixedIfSingle(
                        r.g.val[line_get(l, faux_cell.index)].poss
                          \ (IF faux_cell.in_group THEN out_poss ELSE in_poss))),
                TRUE, FALSE)
    ELSE r

bisect_apply(g, l, faux_line) ==
    Loop(LAMBDA r, k : bisect_apply_cell(r, faux_line[k], l,
                           group_possibilities(faux_line, TRUE),
                           group_possibilities(faux_line, FALSE)),
         NoChange(g), 1, Len(faux_line) + 1)

\* The indices pushed for the recursive calls: enumerate() positions of the
\* faux line (0-based), in-group or out-group.
group_indices(faux_line, in_group) ==
    {k - 1 : k \in {j \in 1..Len(faux_line) : faux_line[j].in_group = in_group}}

RECURSIVE bisect_possibility_groups(_, _, _)
RECURSIVE bisect_split(_, _, _)
RECURSIVE bisect_worth_it(_, _, _)
RECURSIVE bisect_recursion(_, _, _)
RECURSIVE bisect_out_group(_, _, _, _)

\* The value returned: made_change of this call alone, on the grid the
\* second recursive call left.
bisect_return(applied, out_rec) ==
    Change(out_rec.g, applied.made, out_rec.panic)

\* The second recursive call; the first one returned in_rec.
bisect_out_group(applied, l, faux_line, in_rec) ==
    IF in_rec.panic THEN Change(in_rec.g, applied.made, TRUE)
    ELSE bisect_return(applied,
             bisect_possibility_groups(in_rec.g, l,
                 group_indices(faux_line, FALSE)))

\* run_recursion: the first recursive call, on the grid the split left.
bisect_recursion(applied, l, faux_line) ==
    IF applied.panic THEN applied
    ELSE bisect_out_group(applied, l, faux_line,
             bisect_possibility_groups(applied.g, l,
                 group_indices(faux_line, TRUE)))

\* "Now we have to see if this was worth it", with the faux line the loop
\* ended with.
bisect_worth_it(g, l, faux_line) ==
    IF num_out_group(faux_line) > 0
    THEN bisect_recursion(bisect_apply(g, l, faux_line), l, faux_line)
    ELSE NoChange(g)

\* "No point in continuing", with the faux line of <Setup>.
bisect_split(g, l, faux_line) ==
    IF num_out_group(faux_line) <= 2 THEN NoChange(g)
    ELSE bisect_worth_it(g, l, bisect_loop(faux_line, 0))

bisect_possibility_groups(g, l, cells_of_interest) ==
    bisect_split(g, l, faux_line_setup(g, l, cells_of_interest))

identify_and_process_possibility_groups(g, l) ==
    bisect_possibility_groups(g, l, 0..(N - 1))

\* ------------------------------------------------------------------------
\* search_useful_constraint
\* ------------------------------------------------------------------------
PossibilityLinesNone == [tag |-> "None", index |-> 0]
PossibilityLinesInvalid == [tag |-> "Invalid", index |-> 0]
PossibilityLinesUnique(i) == [tag |-> "Unique", index |-> i]

is_invalid(possibility_line) == possibility_line.tag = "Invalid"

\* A tracker that stays with the first line it met.
process_possibility_line_first(possibility_line, l) ==
    IF possibility_line.tag = "None" THEN PossibilityLinesUnique(LineIndex(l))
    ELSE possibility_line

process_possibility_line(possibility_line, l) ==
    IF possibility_line.tag = "None" THEN PossibilityLinesUnique(LineIndex(l))
    ELSE IF possibility_line.tag = "Invalid" THEN possibility_line
    ELSE IF LineIndex(l) = possibility_line.index THEN possibility_line
    ELSE PossibilityLinesInvalid

\* The index of the cell's line of the given type (cell.row / column / section).
parent_line(c, line_type) ==
    IF line_type = ROW THEN cell_row(c)
    ELSE IF line_type = COLUMN THEN cell_column(c)
    ELSE cell_section(c)

\* The loop body at index i of the line; r is the Change so far.
remove_possibilities_line_cell(r, i, l, digit_to_remove, initial_line_type, initial_line_index) ==
    IF /\ IsUnknown(r.g.val[line_get(l, i)])
       /\ LineIndex(parent_line(line_get(l, i), initial_line_type))
             # initial_line_index
       /\ digit_to_remove \in r.g.val[line_get(l, i)].poss
    THEN Change(set_value(r.g, line_get(l, i),
                    FixedIfSingle(r.g.val[line_get(l, i)].poss
                                     \ {digit_to_remove})),
                TRUE, FALSE)
    ELSE r

\* remove_possibilities_line on the grid of r, its result or-ed into the
\* made_change of r.
remove_possibilities_line(r, l, digit_to_remove, initial_line_type, initial_line_index) ==
    Loop(LAMBDA s, i : remove_possibilities_line_cell(s, i, l, digit_to_remove,
                           initial_line_type, initial_line_index),
         r, 0, N)

\* The three trackers after process_possibility_line for the lines of c.
process_trackers(t, c) ==
    [t EXCEPT !.rows = process_possibility_line(t.rows, cell_row(c)),
              !.columns = process_possibility_line(t.columns, cell_column(c)),
              !.sections = process_possibility_line(t.sections, cell_section(c))]

all_invalid(t) ==
    is_invalid(t.rows) /\ is_invalid(t.columns) /\ is_invalid(t.sections)

\* The scan of the line's cells for one possibility, at the cell c of value
\* v; t holds the three trackers and broke, set by either break statement.
possibility_scan_cell(t, c, v, possibility) ==
    IF t.broke THEN t
    ELSE IF IsFixed(v) /\ v.digit = possibility
    THEN [process_trackers(t, c) EXCEPT !.broke = TRUE]
    ELSE IF IsUnknown(v) /\ possibility \in v.poss
    THEN [process_trackers(t, c) EXCEPT
             !.broke = all_invalid(process_trackers(t, c))]
    ELSE [t EXCEPT !.broke = all_invalid(t)]

possibility_scan(g, l, possibility, check_row, check_column, check_section) ==
    Loop(LAMBDA t, cell_id : possibility_scan_cell(t, line_get(l, cell_id),
                                 g.val[line_get(l, cell_id)], possibility),
         [rows |-> IF check_row THEN PossibilityLinesNone
                   ELSE PossibilityLinesInvalid,
          columns |-> IF check_column THEN PossibilityLinesNone
                      ELSE PossibilityLinesInvalid,
          sections |-> IF check_section THEN PossibilityLinesNone
                       ELSE PossibilityLinesInvalid,
          broke |-> FALSE], 0, N)

\* "Check each line and see if we can determine anything", for one tracker
\* and the line it names.
remove_if_unique(r, tracker, l, possibility, initial_line) ==
    IF tracker.tag = "Unique"
    THEN remove_possibilities_line(r, l, possibility, LineType(initial_line),
                                   LineIndex(initial_line))
    ELSE r

useful_constraint_apply(r, t, possibility, l) ==
    remove_if_unique(
        remove_if_unique(
            remove_if_unique(r, t.rows, RowLine(t.rows.index), possibility, l),
            t.columns, ColumnLine(t.columns.index), possibility, l),
        t.sections, SectionLine(t.sections.index), possibility, l)

\* The digits the outer loop of search_useful_constraint ranges over:
\* UsefulConstraintFirst .. UsefulConstraintEnd - 1.
UsefulConstraintFirst == 0
UsefulConstraintEnd == 9

\* The body of the outer loop for one possibility; r is the Change so far.
search_useful_constraint_digit(r, possibility, l) ==
    useful_constraint_apply(r,
        possibility_scan(r.g, l, possibility, LineType(l) = SECTION,
            LineType(l) = SECTION, LineType(l) # SECTION),
        possibility, l)

search_useful_constraint(g, l) ==
    Loop(LAMBDA r, possibility : search_useful_constraint_digit(r, possibility, l),
         NoChange(g), UsefulConstraintFirst, UsefulConstraintEnd)

\* ------------------------------------------------------------------------
\* solve_line; s is [g, st, ran_something, panic], the state of
\* solve_grid_no_guess between two techniques
\* ------------------------------------------------------------------------
\* "if technique(line) { solve_statistics.increment(action) }"
technique_done(s, r, action) ==
    [g |-> r.g,
     st |-> IF r.made THEN SolveStatistics_increment(s.st, action) ELSE s.st,
     ran_something |-> TRUE,
     panic |-> r.panic]

singles_step(s, l, solve_controller) ==
    IF solve_controller.search_singles
    THEN technique_done(s, search_single_possibility(s.g, l), "Single")
    ELSE s

hidden_singles_step(s, l, solve_controller) ==
    IF solve_controller.search_hidden_singles /\ ~s.panic
    THEN technique_done(s, search_hidden_single(s.g, l), "HiddenSingle")
    ELSE s

possibility_groups_step(s, l, solve_controller) ==
    IF solve_controller.find_possibility_groups /\ ~s.panic
    THEN technique_done(s, identify_and_process_possibility_groups(s.g, l),
                        "PossibilityGroup")
    ELSE s

useful_constraint_step(s, l, solve_controller) ==
    IF solve_controller.search_useful_constraint /\ ~s.panic
    THEN technique_done(s, search_useful_constraint(s.g, l),
                        "UsefulConstraints")
    ELSE s

\* solve_line with the flag of the line cleared after the techniques.
solve_line_flag_last(s, l, solve_controller) ==
    [useful_constraint_step(
         possibility_groups_step(
             hidden_singles_step(
                 singles_step([s EXCEPT !.ran_something = TRUE],
                              l, solve_controller),
                 l, solve_controller),
             l, solve_controller),
         l, solve_controller)
     EXCEPT !.g.upd[l] = FALSE]

solve_line(s, l, solve_controller) ==
    useful_constraint_step(
        possibility_groups_step(
            hidden_singles_step(
                singles_step([s EXCEPT !.g.upd[l] = FALSE,
                                       !.ran_something = TRUE],
                             l, solve_controller),
                l, solve_controller),
            l, solve_controller),
        l, solve_controller)

\* ------------------------------------------------------------------------
\* solve_grid_no_guess
\* ------------------------------------------------------------------------
\* The body of the for-loops of a round at line l.
scan_line(s, l, solve_controller) ==
    IF ~s.panic /\ s.g.upd[l] THEN solve_line(s, l, solve_controller) ELSE s

\* One round of the three for-loops: rows, then columns, then sections.
scan_round(g, solve_controller, solve_statistics) ==
    Loop(LAMBDA s, i : scan_line(s, SectionLine(i), solve_controller),
         Loop(LAMBDA s, i : scan_line(s, ColumnLine(i), solve_controller),
              Loop(LAMBDA s, i : scan_line(s, RowLine(i), solve_controller),
                   [g |-> g, st |-> solve_statistics,
                    ran_something |-> FALSE, panic |-> FALSE],
                   0, N),
              0, N),
         0, N)

\* "Check if complete or invalid", in row-major order.
HasEmptyUnknown(g) ==
    \E c \in Cells : IsUnknown(g.val[c]) /\ g.val[c].poss = {}

\* appears_complete never reset by an Unknown cell.
appears_complete_never_reset(g) == TRUE

appears_complete(g) == \A c \in Cells : IsFixed(g.val[c])

Returned(g, status, st, clones) ==
    [g |-> g, status |-> status, st |-> st, clones |-> clones]

RECURSIVE solve_grid_no_guess(_, _, _)
RECURSIVE after_round(_, _)

\* The end of the pass without the loop around it: one pass, then return.
after_round_single_pass(s, solve_controller) ==
    IF s.panic THEN Returned(s.g, Panic, s.st, 0)
    ELSE IF ~s.ran_something THEN Returned(s.g, Unfinished, s.st, 0)
    ELSE IF HasEmptyUnknown(s.g) THEN Returned(s.g, Invalid, s.st, 0)
    ELSE IF appears_complete(s.g)
    THEN Returned(s.g, Complete("Unique"), s.st, 0)
    ELSE Returned(s.g, Unfinished, s.st, 0)

\* The end of one pass of the loop, s the state the three for-loops left.
after_round(s, solve_controller) ==
    IF s.panic THEN Returned(s.g, Panic, s.st, 0)
    ELSE IF ~s.ran_something THEN Returned(s.g, Unfinished, s.st, 0)
    ELSE IF HasEmptyUnknown(s.g) THEN Returned(s.g, Invalid, s.st, 0)
    ELSE IF appears_complete(s.g)
    THEN Returned(s.g, Complete("Unique"), s.st, 0)
    ELSE solve_grid_no_guess(s.g, solve_controller, s.st)

solve_grid_no_guess(g, solve_controller, solve_statistics) ==
    after_round(scan_round(g, solve_controller, solve_statistics),
                solve_controller)

\* ------------------------------------------------------------------------
\* find_smallest_cell (solver.rs); NoCell stands for None
\* ------------------------------------------------------------------------
NoCell == -1
UsizeMax == 2147483647

\* The body of the nested loops at cell c of value v; s is
\* [cell, size, broke], broke set by break 'outer.
find_smallest_cell_at(s, c, v) ==
    IF s.broke THEN s
    ELSE IF IsUnknown(v) /\ Cardinality(v.poss) < s.size
            /\ Cardinality(v.poss) > 0
    THEN [cell |-> c, size |-> Cardinality(v.poss),
          broke |-> Cardinality(v.poss) <= 2]
    ELSE [s EXCEPT !.broke = s.size <= 2]

find_smallest_cell(g) ==
    Loop(LAMBDA s, c : find_smallest_cell_at(s, c, g.val[c]),
         [cell |-> NoCell, size |-> UsizeMax, broke |-> FALSE], 0, N * N).cell

\* ------------------------------------------------------------------------
\* solve_grid_with_solve_controller and solve_grid_guess.  clones counts
\* the calls of grid.clone() a call made.
\* ------------------------------------------------------------------------
RECURSIVE solve_grid_with_solve_controller(_, _, _)

\* The match that goes on after Complete(NotUnique).
guess_status_never_breaks(r, current_status, solve_controller) ==
    IF current_status.tag = "Complete" /\ ~solve_controller.determine_uniqueness
    THEN [current_status |-> Complete("None"), broke |-> TRUE]
    ELSE [current_status |-> current_status, broke |-> FALSE]

\* The match that keeps the uniqueness of the branch when uniqueness is not
\* looked for.
guess_status_keeps_uniqueness(r, current_status, solve_controller) ==
    [current_status |-> current_status,
     broke |-> current_status.tag = "Complete"
                  /\ (~solve_controller.determine_uniqueness
                         \/ current_status.uniq = "NotUnique")]

\* The match on current_status after increment, r what the call on
\* grid_copy returned: the status the loop goes on with, and whether it
\* breaks.
guess_status(r, current_status, solve_controller) ==
    IF r.status.tag = "Panic" \/ current_status.tag = "Invalid"
          \/ current_status.tag = "Panic"
          \/ (current_status.tag = "Complete"
                /\ solve_controller.determine_uniqueness
                /\ current_status.uniq = "None")
    THEN [current_status |-> Panic, broke |-> TRUE]
    ELSE IF current_status.tag = "Complete"
            /\ ~solve_controller.determine_uniqueness
    THEN [current_status |-> Complete("None"), broke |-> TRUE]
    ELSE [current_status |-> current_status,
          broke |-> current_status = Complete("NotUnique")]

\* The rest of the loop body that never takes the grid of a complete
\* branch for grid_solution.
guess_returned_grid_dropped(a, r, solve_controller) ==
    [current_status |->
         guess_status(r, increment(a.current_status, r.status),
                      solve_controller).current_status,
     grid_solution |-> a.grid_solution,
     st |-> r.st,
     clones |-> a.clones + 1 + r.clones,
     broke |->
         guess_status(r, increment(a.current_status, r.status),
                      solve_controller).broke]

\* The rest of the loop body once the call on grid_copy has returned r; a
\* is the loop state [current_status, grid_solution, st, clones, broke].
guess_returned(a, r, solve_controller) ==
    [current_status |->
         guess_status(r, increment(a.current_status, r.status),
                      solve_controller).current_status,
     grid_solution |-> IF IsComplete(r.status) THEN r.g ELSE a.grid_solution,
     st |-> r.st,
     clones |-> a.clones + 1 + r.clones,
     broke |->
         guess_status(r, increment(a.current_status, r.status),
                      solve_controller).broke]

\* The loop body for one digit of 1..9, taken when it is among the
\* possibilities of the smallest cell.
guess_digit(a, digit, g, smallest_cell, solve_controller) ==
    IF a.broke \/ digit \notin get_value_possibilities(g, smallest_cell)
    THEN a
    ELSE guess_returned(a,
             solve_grid_with_solve_controller(
                 set(clone(g), smallest_cell, digit), solve_controller, a.st),
             solve_controller)

\* The end of solve_grid_guess without the copy of grid_solution into grid.
guess_finished_no_copy(g, a) ==
    IF a.current_status.tag = "Unfinished"
    THEN Returned(g, Invalid, a.st, a.clones)
    ELSE Returned(g, a.current_status, a.st, a.clones)

\* "We've finished the for-loop"
guess_finished(g, a) ==
    IF IsComplete(a.current_status)
    THEN Returned(clone_from(g, a.grid_solution), a.current_status, a.st,
                  a.clones)
    ELSE IF a.current_status.tag = "Unfinished"
    THEN Returned(g, Invalid, a.st, a.clones)
    ELSE Returned(g, a.current_status, a.st, a.clones)

guess_cell(g, smallest_cell, solve_controller, solve_statistics) ==
    IF smallest_cell = NoCell
    THEN Returned(g, Invalid, solve_statistics, 0)
    ELSE guess_finished(g,
             Loop(LAMBDA a, digit : guess_digit(a, digit, g, smallest_cell,
                                                solve_controller),
                  [current_status |-> Unfinished, grid_solution |-> g,
                   st |-> solve_statistics, clones |-> 0, broke |-> FALSE],
                  1, N + 1))

solve_grid_guess(g, solve_controller, solve_statistics) ==
    guess_cell(g, find_smallest_cell(g), solve_controller,
               SolveStatistics_increment(solve_statistics, "Guess"))

\* The match without the arm for make_guesses being off.
after_no_guess_status_kept(r, solve_controller) ==
    IF r.status.tag = "Unfinished" /\ solve_controller.make_guesses
    THEN solve_grid_guess(r.g, solve_controller, r.st)
    ELSE r

\* The match without the test of make_guesses.
after_no_guess_always_guess(r, solve_controller) ==
    IF r.status.tag = "Unfinished"
    THEN solve_grid_guess(r.g, solve_controller, r.st)
    ELSE r

\* The match on the status solve_grid_no_guess returned.
after_no_guess(r, solve_controller) ==
    IF r.status.tag = "Unfinished"
    THEN IF solve_controller.make_guesses
         THEN solve_grid_guess(r.g, solve_controller, r.st)
         ELSE Returned(r.g, Complete("NotUnique"), r.st, 0)
    ELSE r

solve_grid_with_solve_controller(g, solve_controller, solve_statistics) ==
    after_no_guess(solve_grid_no_guess(g, solve_controller, solve_statistics),
                   solve_controller)

AllTechniques == SolveController(TRUE, TRUE, TRUE, TRUE, TRUE, TRUE)

solve_grid(g) ==
    solve_grid_with_solve_controller(g, AllTechniques, SolveStatistics_new)

evaluate_grid_with_solve_controller(g, solve_controller) ==
    solve_grid_with_solve_controller(clone(g), solve_controller,
                                     SolveStatistics_new)

\* ------------------------------------------------------------------------
\* read_grid (bin/solver.rs): a 9x9 matrix of digits, 0 for an empty cell,
\* is loaded into a new Grid by one set per non-zero digit, row by row.
\* A matrix is a function from Cells to 0..9.
\* ------------------------------------------------------------------------
read_grid_cell(g, c, matrix) ==
    IF matrix[c] > 0 THEN set(g, c, matrix[c]) ELSE g

read_grid(matrix) ==
    Loop(LAMBDA g, c : read_grid_cell(g, c, matrix), Grid_new, 0, N * N)

\* ------------------------------------------------------------------------
\* delete_value, calculate_possibilities, recalculate_and_set_possibilities
\* (generator.rs)
\* ------------------------------------------------------------------------
\* eliminate_possibilities: the digits of the Fixed cells of the line other
\* than the cell itself.
eliminate_possibilities(g, l, c) ==
    {g.val[o].digit : o \in {o2 \in LineSet(l) : o2 # c /\ IsFixed(g.val[o2])}}

calculate_possibilities(g, c) ==
    ((Digits \ eliminate_possibilities(g, cell_section(c), c))
        \ eliminate_possibilities(g, cell_row(c), c))
        \ eliminate_possibilities(g, cell_column(c), c)

\* The loop body of recalculate_and_set_possibilities at index i.
recalculate_cell(g, i, l) ==
    LET c == line_get(l, i)
    IN  IF IsFixed(g.val[c]) THEN g
        ELSE set_value_exact(g, c, Unknown(calculate_possibilities(g, c)))

recalculate_and_set_possibilities(g, l) ==
    Loop(LAMBDA s, i : recalculate_cell(s, i, l), g, 0, N)

\* Cell::delete_value that recalculates the section alone.
delete_value_section_only(g, c) ==
    recalculate_and_set_possibilities(
        set_value_exact(g, c, Unknown({})), cell_section(c))

\* Cell::delete_value: the empty Unknown, then the section, the row and the
\* column recalculated.
delete_value(g, c) ==
    recalculate_and_set_possibilities(
        recalculate_and_set_possibilities(
            recalculate_and_set_possibilities(
                set_value_exact(g, c, Unknown({})), cell_section(c)),
            cell_row(c)),
        cell_column(c))

\* ------------------------------------------------------------------------
\* Inputs.  BaseSolution is a completed grid that agrees with the givens of
\* the fixture of test_unique_detection; a puzzle is BaseSolution with the
\* cells of holes left empty and the cells of over given another digit.
\* ------------------------------------------------------------------------
BaseSolution ==
    <<9, 8, 3, 1, 6, 2, 7, 4, 5,
      1, 6, 7, 5, 3, 4, 8, 9, 2,
      2, 4, 5, 9, 7, 8, 6, 1, 3,
      5, 1, 8, 7, 2, 3, 9, 6, 4,
      4, 3, 2, 6, 9, 1, 5, 7, 8,
      6, 7, 9, 8, 4, 5, 3, 2, 1,
      3, 9, 1, 2, 8, 6, 4, 5, 7,
      7, 5, 4, 3, 1, 9, 2, 8, 6,
      8, 2, 6, 4, 5, 7, 1, 3, 9>>

\* Cells (3,1), (3,5), (4,1), (4,5) hold 1, 3, 3, 1: with all four empty
\* the puzzle has two completions, with three of them empty it has one.
\* The rectangle puzzle has cell (0,0) empty too, which propagation fills.
RectanglePuzzle == [holes |-> {0, 28, 32, 37, 41}, over |-> {}]
CornerPuzzle == [holes |-> {28, 32, 37}, over |-> {}]
\* Six cells of rows 0, 1 and 6 disturbed, cell (0,2) given 7 for its 3:
\* no completion.
ContradictoryPuzzle ==
    [holes |-> {6, 9, 11, 54, 56}, over |-> {<<2, 7>>}]

\* The corner puzzle with cell (3,1) given 3 for its 1: no two givens
\* clash, and no digit is left for cell (3,5).
DeadEndPuzzle == [holes |-> {32, 37}, over |-> {<<28, 3>>}]
\* Eight cells of rows 4, 5 and 7 empty: one completion, which hidden
\* singles alone reach in their second pass over the lines.
TwoPassPuzzle == [holes |-> {37, 42, 43, 46, 51, 52, 69, 70}, over |-> {}]

\* Thirteen cells of rows 0 to 3 and 5 empty: one completion, no technique
\* places a digit, and of the two candidates 4 and 8 of cell (0,1) the
\* first leads to a contradiction.
GuessPuzzle ==
    [holes |-> {1, 5, 7, 13, 17, 19, 23, 26, 31, 32, 35, 49, 52},
     over |-> {}]

Puzzles ==
    {RectanglePuzzle, CornerPuzzle, DeadEndPuzzle, ContradictoryPuzzle,
     TwoPassPuzzle, GuessPuzzle}

Matrix(p) ==
    [c \in Cells |->
        IF c \in p.holes THEN 0
        ELSE IF \E o \in p.over : o[1] = c
        THEN (CHOOSE o \in p.over : o[1] = c)[2]
        ELSE BaseSolution[c + 1]]

\* The cells and digits of the set calls made after read_grid, and the cells
\* whose value is deleted.
SetCells == {27, 28}
SetDigits == {1, 3}
DeleteCells == {41}

\* The controllers of the solver calls: every technique with guessing
\* (Difficulty::Challenge), every technique without guessing
\* (Difficulty::Hard), hidden singles alone with guessing.
Challenge == SolveController(TRUE, TRUE, TRUE, TRUE, TRUE, TRUE)
Hard == SolveController(TRUE, TRUE, TRUE, TRUE, TRUE, FALSE)
HiddenSinglesOnly == SolveController(TRUE, FALSE, TRUE, FALSE, FALSE, TRUE)
\* Difficulty::Easy: singles and hidden singles, no guessing.
Easy == SolveController(TRUE, TRUE, TRUE, FALSE, FALSE, FALSE)
Controllers == {Challenge, Hard, HiddenSinglesOnly}

\* The number of operations on the grids after read_grid.
MaxOps == 2

\* ------------------------------------------------------------------------
\* State.  A Grid owns its 81 cells: heap maps each Grid object to the
\* values of its cells and the flags of its lines.  Object GridRef is the
\* grid main reads; the handle copy names the object a clone() returned.
\* ------------------------------------------------------------------------
VARIABLES
    heap,       \* Grid object -> [val, upd]
    copy_ref,   \* the object of the handle copy, NoRef before any clone
    last,       \* the last operation: its name, handle, arguments, results,
                \* and built of its grid when it started
    before,     \* the operation before the last one
    prev,       \* heap as it was when the last operation started
    built,      \* object -> TRUE while only set calls that placed a
                \* candidate of their cell (and clones of such) made it
    nops,       \* operations done after read_grid
    \* run_multi_threaded of bin/generator.rs:
    arguments,          \* max_attempts and threads of the call
    workers,            \* thread -> its place, its attempts, its result
    channel,            \* the messages sent and not yet received
    should_stop,        \* the AtomicBool
    threads_running,    \* the coordinator's locals
    attempt_count,
    result_to_return,
    received,           \* the successes the coordinator received, in order
    returned,           \* what run_multi_threaded returned
    \* generate_grid:
    generator,          \* its place, its grid, num_hints, the statistics,
                        \* the cells visited, the controller
    \* solve_grid_guess, branch by branch:
    guess               \* its place, the controller, the number of
                        \* possibilities, the loop state, the statuses of
                        \* the branches so far, the status returned

grid_vars == <<heap, copy_ref, last, before, prev, built, nops>>
harness_vars ==
    <<arguments, workers, channel, should_stop, threads_running, attempt_count,
      result_to_return, received, returned>>
vars == <<grid_vars, harness_vars, generator, guess>>

GridRef == 0
NewRef == 1
NoRef == -1
Refs == {GridRef, NewRef}

Handles == IF copy_ref = NoRef THEN {"grid"} ELSE {"grid", "copy"}
Ref(h) == IF h = "grid" THEN GridRef ELSE copy_ref
Other(h) == IF h = "grid" THEN "copy" ELSE "grid"

NoController == SolveController(FALSE, FALSE, FALSE, FALSE, FALSE, FALSE)
NoStatus == [tag |-> "None", uniq |-> "None"]

Op(name, h, c, d, ctl, status, st, clones) ==
    [op |-> name, handle |-> h, cell |-> c, digit |-> d, ctl |-> ctl,
     status |-> status, st |-> st, clones |-> clones,
     built |-> built[Ref(h)]]

PlainOp(name, h, c, d) ==
    Op(name, h, c, d, NoController, NoStatus, SolveStatistics_new, 0)

\* Option<(Grid, SolveStatistics, i32)>: the puzzle is named by the thread
\* and the attempt that generated it.
None == [some |-> FALSE, thread |-> -1, attempt |-> 0]
Some(i, n) == [some |-> TRUE, thread |-> i, attempt |-> n]
NotReturned == [done |-> FALSE, result |-> None, attempts |-> 0]

\* No run_multi_threaded call is under way.
HarnessIdle ==
    /\ arguments = [max_attempts |-> 0, threads |-> 0]
    /\ workers = <<>>
    /\ channel = <<>>
    /\ should_stop = FALSE
    /\ threads_running = 0
    /\ attempt_count = 0
    /\ result_to_return = None
    /\ received = <<>>
    /\ returned = NotReturned

\* The state of the loop of solve_grid_guess before its first branch.
guess_loop_start(g, solve_statistics) ==
    [current_status |-> Unfinished, grid_solution |-> g,
     st |-> solve_statistics, clones |-> 0, broke |-> FALSE]

\* No solve_grid_guess call is followed branch by branch.
GuessIdle ==
    guess = [pc |-> "idle", ctl |-> NoController, possibilities |-> 0,
             a |-> guess_loop_start(Grid_new, SolveStatistics_new),
             branches |-> <<>>, status |-> NoStatus]

\* No generate_grid call is under way.
GeneratorIdle ==
    generator = [pc |-> "idle", grid |-> Grid_new, num_hints |-> 0,
                 statistics |-> SolveStatistics_new, visited |-> {},
                 ctl |-> NoController]

GridInit ==
    /\ heap = [r \in Refs |-> Grid_new]
    /\ copy_ref = NoRef
    /\ built = [r \in Refs |-> TRUE]
    /\ last = PlainOp("New", "grid", NoCell, 0)
    /\ before = PlainOp("New", "grid", NoCell, 0)
    /\ prev = [r \in Refs |-> Grid_new]
    /\ nops = 0

Init == GridInit /\ HarnessIdle /\ GeneratorIdle /\ GuessIdle

\* TRUE iff the set of digit at c places a candidate of the Unknown cell c.
IsCandidate(g, c, digit) == IsUnknown(g.val[c]) /\ digit \in g.val[c].poss

\* read_grid with the record of whether every set placed a candidate.
read_grid_checked_cell(r, c, matrix) ==
    IF matrix[c] > 0
    THEN [g |-> set(r.g, c, matrix[c]),
          ok |-> r.ok /\ IsCandidate(r.g, c, matrix[c])]
    ELSE r

read_grid_checked(matrix) ==
    Loop(LAMBDA r, c : read_grid_checked_cell(r, c, matrix),
         [g |-> Grid_new, ok |-> TRUE], 0, N * N)

\* main of bin/solver.rs: read the puzzle into the new grid.
ReadGrid(p) ==
    /\ last.op = "New"
    /\ heap' = [heap EXCEPT ![GridRef] = read_grid(Matrix(p))]
    /\ built' = [built EXCEPT ![GridRef] = read_grid_checked(Matrix(p)).ok]
    /\ last' = PlainOp("ReadGrid", "grid", NoCell, 0)
    /\ before' = last
    /\ prev' = heap
    /\ UNCHANGED <<copy_ref, nops>>
    /\ UNCHANGED <<harness_vars, generator, guess>>

Started == last.op # "New" /\ nops < MaxOps

\* cell.set(digit) on a cell of the grid behind handle h.
SetCell(h, c, digit) ==
    /\ Started
    /\ heap' = [heap EXCEPT ![Ref(h)] = set(heap[Ref(h)], c, digit)]
    /\ built' = [built EXCEPT ![Ref(h)] =
                     @ /\ IsCandidate(heap[Ref(h)], c, digit)]
    /\ last' = PlainOp("SetCell", h, c, digit)
    /\ before' = last
    /\ prev' = heap
    /\ nops' = nops + 1
    /\ UNCHANGED copy_ref
    /\ UNCHANGED <<harness_vars, generator, guess>>

\* A clone that shares the cells of its source, as Rc::clone of each cell
\* would: the handle copy names the source's object.
CloneShared ==
    /\ Started
    /\ copy_ref' = GridRef
    /\ built' = built
    /\ last' = PlainOp("Clone", "grid", NoCell, 0)
    /\ before' = last
    /\ prev' = heap
    /\ nops' = nops + 1
    /\ UNCHANGED heap
    /\ UNCHANGED <<harness_vars, generator, guess>>

\* copy = grid.clone(): Grid::new() makes the object, clone_from fills it.
Clone ==
    /\ Started
    /\ heap' = [heap EXCEPT ![NewRef] = clone(heap[GridRef])]
    /\ copy_ref' = NewRef
    /\ built' = [built EXCEPT ![NewRef] = built[GridRef]]
    /\ last' = PlainOp("Clone", "grid", NoCell, 0)
    /\ before' = last
    /\ prev' = heap
    /\ nops' = nops + 1
    /\ UNCHANGED <<harness_vars, generator, guess>>

\* cell.delete_value() on a Fixed cell, as generate_grid does.
DeleteValue(h, c) ==
    /\ Started
    /\ IsFixed(heap[Ref(h)].val[c])
    /\ heap' = [heap EXCEPT ![Ref(h)] = delete_value(heap[Ref(h)], c)]
    /\ built' = [built EXCEPT ![Ref(h)] = FALSE]
    /\ last' = PlainOp("DeleteValue", h, c, 0)
    /\ before' = last
    /\ prev' = heap
    /\ nops' = nops + 1
    /\ UNCHANGED copy_ref
    /\ UNCHANGED <<harness_vars, generator, guess>>

\* A solver call on the grid behind h has returned r: the grid is as the
\* call left it, the status and the statistics are recorded.
CallReturned(name, h, solve_controller, r) ==
    /\ heap' = [heap EXCEPT ![Ref(h)] = r.g]
    /\ last' = Op(name, h, NoCell, 0, solve_controller, r.status, r.st,
                  r.clones)

\* solve_grid_no_guess(&mut grid, &solve_controller, &mut new statistics).
NoGuess(h, solve_controller) ==
    /\ Started
    /\ CallReturned("NoGuess", h, solve_controller,
                    solve_grid_no_guess(heap[Ref(h)], solve_controller,
                                        SolveStatistics_new))
    /\ built' = [built EXCEPT ![Ref(h)] = FALSE]
    /\ before' = last
    /\ prev' = heap
    /\ nops' = nops + 1
    /\ UNCHANGED copy_ref
    /\ UNCHANGED <<harness_vars, generator, guess>>

\* solve_grid_with_solve_controller(&mut grid, &solve_controller,
\* &mut new statistics).
Solve(h, solve_controller) ==
    /\ Started
    /\ CallReturned("Solve", h, solve_controller,
                    solve_grid_with_solve_controller(heap[Ref(h)],
                        solve_controller, SolveStatistics_new))
    /\ built' = [built EXCEPT ![Ref(h)] = FALSE]
    /\ before' = last
    /\ prev' = heap
    /\ nops' = nops + 1
    /\ UNCHANGED copy_ref
    /\ UNCHANGED <<harness_vars, generator, guess>>

Next ==
    \/ \E p \in Puzzles : ReadGrid(p)
    \/ \E h \in Handles, c \in SetCells, digit \in SetDigits : SetCell(h, c, digit)
    \/ Clone
    \/ \E h \in Handles, c \in DeleteCells : DeleteValue(h, c)
    \/ \E h \in Handles, solve_controller \in Controllers :
           NoGuess(h, solve_controller)
    \/ \E h \in Handles, solve_controller \in Controllers :
           Solve(h, solve_controller)

Spec == Init /\ [][Next]_vars

\* ------------------------------------------------------------------------
\* run_multi_threaded of bin/generator.rs: threads workers generate puzzles
\* and send what they found; the coordinator receives one message per thread.
\* ------------------------------------------------------------------------
\* The largest --threads and --attempts of a run.
MaxThreads == 3
MaxAttempts == 4

\* remaining_attempts when thread i is spawned, and thread_attempts of i.
RECURSIVE remaining_attempts(_, _, _)
remaining_attempts(max_attempts, threads, i) ==
    IF i = 0 THEN max_attempts
    ELSE remaining_attempts(max_attempts, threads, i - 1)
             - (remaining_attempts(max_attempts, threads, i - 1)
                    \div (threads - (i - 1)))

\* An even share of what remains, whatever the number of threads spawned.
thread_attempts_even(max_attempts, threads, i) ==
    remaining_attempts(max_attempts, threads, i) \div threads

thread_attempts(max_attempts, threads, i) ==
    remaining_attempts(max_attempts, threads, i) \div (threads - i)

Threads == DOMAIN workers

\* The state when the last thread is spawned; thread i is workers[i + 1].
HarnessStart(max_attempts, threads) ==
    /\ arguments = [max_attempts |-> max_attempts, threads |-> threads]
    /\ workers =
           [w \in 1..threads |->
               [pc |-> "loop",
                thread_attempts |->
                    thread_attempts(max_attempts, threads, w - 1),
                num_attempts |-> 0,
                attempting |-> FALSE,
                result |-> None]]
    /\ channel = <<>>
    /\ should_stop = FALSE
    /\ threads_running = threads
    /\ attempt_count = 0
    /\ result_to_return = None
    /\ received = <<>>
    /\ returned = NotReturned

HarnessInit ==
    /\ GridInit
    /\ GeneratorIdle
    /\ GuessIdle
    /\ \E threads \in 2..MaxThreads, max_attempts \in 0..MaxAttempts :
           HarnessStart(max_attempts, threads)

\* The values a Relaxed load of should_stop may return.
LoadShouldStop == IF should_stop THEN {FALSE, TRUE} ELSE {FALSE}

\* get_puzzle_matching_conditions, the while condition is true: the worker
\* has attempts left and loads should_stop as false.
StartAttempt(w) ==
    /\ workers[w].pc = "loop"
    /\ ~workers[w].attempting
    /\ workers[w].num_attempts < workers[w].thread_attempts
    /\ FALSE \in LoadShouldStop
    /\ workers' = [workers EXCEPT ![w].attempting = TRUE]
    /\ UNCHANGED <<arguments, channel, should_stop, threads_running,
                   attempt_count, result_to_return, received, returned>>
    /\ UNCHANGED <<grid_vars, generator, guess>>

\* A loop body that gives the attempt up when should_stop is set.
GenerateUnlessStopped(w, meets) ==
    /\ workers[w].pc = "loop"
    /\ workers[w].attempting
    /\ workers' =
           IF should_stop
           THEN [workers EXCEPT ![w].attempting = FALSE]
           ELSE [workers EXCEPT
                    ![w].num_attempts = @ + 1,
                    ![w].attempting = FALSE,
                    ![w].result = IF meets THEN Some(w - 1, workers[w].num_attempts + 1) ELSE None,
                    ![w].pc = IF meets THEN "send" ELSE "loop"]
    /\ UNCHANGED <<arguments, channel, should_stop, threads_running,
                   attempt_count, result_to_return, received, returned>>
    /\ UNCHANGED <<grid_vars, generator, guess>>

\* get_puzzle_matching_conditions, the body of the while loop: generate a
\* grid, count the attempt, return it if it meets the conditions.
Generate(w, meets) ==
    /\ workers[w].pc = "loop"
    /\ workers[w].attempting
    /\ workers' =
           [workers EXCEPT
               ![w].num_attempts = @ + 1,
               ![w].attempting = FALSE,
               ![w].result = IF meets THEN Some(w - 1, workers[w].num_attempts + 1) ELSE None,
               ![w].pc = IF meets THEN "send" ELSE "loop"]
    /\ UNCHANGED <<arguments, channel, should_stop, threads_running,
                   attempt_count, result_to_return, received, returned>>
    /\ UNCHANGED <<grid_vars, generator, guess>>

\* get_puzzle_matching_conditions, the while condition is false: out of
\* attempts, or should_stop was seen set.
LoopExit(w) ==
    /\ workers[w].pc = "loop"
    /\ ~workers[w].attempting
    /\ \/ ~(workers[w].num_attempts < workers[w].thread_attempts)
       \/ TRUE \in LoadShouldStop
    /\ workers' = [workers EXCEPT ![w].result = None, ![w].pc = "send"]
    /\ UNCHANGED <<arguments, channel, should_stop, threads_running,
                   attempt_count, result_to_return, received, returned>>
    /\ UNCHANGED <<grid_vars, generator, guess>>

\* A worker that stores should_stop itself when it sends a success.
SendAndStop(w) ==
    /\ workers[w].pc = "send"
    /\ channel' = Append(channel, [result |-> workers[w].result,
                                   attempts |-> workers[w].num_attempts])
    /\ workers' = [workers EXCEPT ![w].pc = "done"]
    /\ should_stop' = (should_stop \/ workers[w].result.some)
    /\ UNCHANGED <<arguments, threads_running, attempt_count,
                   result_to_return, received, returned>>
    /\ UNCHANGED <<grid_vars, generator, guess>>

\* cloned_transmitter.send((result, num_attempts)).
Send(w) ==
    /\ workers[w].pc = "send"
    /\ channel' = Append(channel, [result |-> workers[w].result,
                                   attempts |-> workers[w].num_attempts])
    /\ workers' = [workers EXCEPT ![w].pc = "done"]
    /\ UNCHANGED <<arguments, should_stop, threads_running, attempt_count,
                   result_to_return, received, returned>>
    /\ UNCHANGED <<grid_vars, generator, guess>>

\* The match on result that keeps the success already held.
keep_first_result(held, result) ==
    IF result.some /\ ~held.some THEN result ELSE held

\* The match on result of the coordinator: result_to_return after it, held
\* being result_to_return before it.
match_result(held, result) == IF result.some THEN result ELSE held

\* A pass of the coordinator's loop that takes the attempts of the message
\* for the count.
ReceiveLastCount ==
    /\ ~returned.done
    /\ threads_running > 0
    /\ channel # <<>>
    /\ channel' = Tail(channel)
    /\ threads_running' = threads_running - 1
    /\ attempt_count' = Head(channel).attempts
    /\ result_to_return' = match_result(result_to_return, Head(channel).result)
    /\ should_stop' = (should_stop \/ Head(channel).result.some)
    /\ received' = IF Head(channel).result.some
                   THEN Append(received, Head(channel).result)
                   ELSE received
    /\ UNCHANGED <<arguments, workers, returned>>
    /\ UNCHANGED <<grid_vars, generator, guess>>

\* One pass of the coordinator's while loop.
Receive ==
    /\ ~returned.done
    /\ threads_running > 0
    /\ channel # <<>>
    /\ channel' = Tail(channel)
    /\ threads_running' = threads_running - 1
    /\ attempt_count' = attempt_count + Head(channel).attempts
    /\ result_to_return' = match_result(result_to_return, Head(channel).result)
    /\ should_stop' = (should_stop \/ Head(channel).result.some)
    /\ received' = IF Head(channel).result.some
                   THEN Append(received, Head(channel).result)
                   ELSE received
    /\ UNCHANGED <<arguments, workers, returned>>
    /\ UNCHANGED <<grid_vars, generator, guess>>

\* return (result_to_return, attempt_count).
Return ==
    /\ ~returned.done
    /\ threads_running = 0
    /\ workers # <<>>
    /\ returned' = [done |-> TRUE, result |-> result_to_return,
                    attempts |-> attempt_count]
    /\ UNCHANGED <<arguments, workers, channel, should_stop,
                   threads_running, attempt_count, result_to_return,
                   received>>
    /\ UNCHANGED <<grid_vars, generator, guess>>

HarnessNext ==
    \/ \E w \in Threads : StartAttempt(w)
    \/ \E w \in Threads, meets \in BOOLEAN : Generate(w, meets)
    \/ \E w \in Threads : LoopExit(w)
    \/ \E w \in Threads : Send(w)
    \/ Receive
    \/ Return

HarnessSpec == HarnessInit /\ [][HarnessNext]_vars

\* The steps of the thread of worker w, and those of the coordinator.
WorkerStep(w) ==
    /\ w \in Threads
    /\ \/ StartAttempt(w)
       \/ \E meets \in BOOLEAN : Generate(w, meets)
       \/ LoopExit(w)
       \/ Send(w)

CoordinatorStep == Receive \/ Return

\* Every thread that can take a step is scheduled, and an attempt ends.
HarnessFairSpec ==
    /\ HarnessSpec
    /\ \A w \in 1..MaxThreads : WF_vars(WorkerStep(w))
    /\ WF_vars(CoordinatorStep)

\* ------------------------------------------------------------------------
\* generate_grid(rng, solve_controller), the reduction of a completed grid:
\* each filled cell is visited once, in shuffled order; its value is deleted
\* on a clone, the clone is evaluated under solve_controller, and the clone
\* replaces the grid when the status is Complete(Unique).
\* ------------------------------------------------------------------------
\* Difficulty::map_to_solve_controller: Challenge, Hard and Medium, Easy.
DifficultyControllers == {Challenge, Hard, Easy}

\* The cells the shuffled order visits; the other cells stay filled.
ReductionCells == {0, 28, 32, 37, 41, 80}

\* The completed grid the reduction starts from: a puzzle with one
\* completion, solved.
completed_grid == solve_grid(read_grid(Matrix(CornerPuzzle))).g

GeneratorInit ==
    /\ GridInit
    /\ HarnessIdle
    /\ GuessIdle
    /\ \E solve_controller \in DifficultyControllers :
           generator = [pc |-> "reducing", grid |-> completed_grid,
                        num_hints |-> N * N,
                        statistics |-> SolveStatistics_new,
                        visited |-> {}, ctl |-> solve_controller]

\* The match that takes grid_clone for the grid on Complete(NotUnique) too.
reduction_match_commits_always(gen, c, grid_clone, r) ==
    IF IsComplete(r.status)
    THEN [gen EXCEPT !.grid = grid_clone, !.num_hints = @ - 1,
                     !.statistics = r.st, !.visited = @ \cup {c}]
    ELSE [gen EXCEPT !.pc = "panicked", !.visited = @ \cup {c}]

\* The match on the status of the evaluation r of grid_clone.
reduction_match(gen, c, grid_clone, r) ==
    IF r.status = Complete("Unique")
    THEN [gen EXCEPT !.grid = grid_clone, !.num_hints = @ - 1,
                     !.statistics = r.st, !.visited = @ \cup {c}]
    ELSE IF r.status = Complete("NotUnique")
    THEN [gen EXCEPT !.visited = @ \cup {c}]
    ELSE [gen EXCEPT !.pc = "panicked", !.visited = @ \cup {c}]

\* One pass of the loop over non_empty_cells, grid_clone being the clone
\* with the value of c deleted.
reduction_evaluate(gen, c, grid_clone) ==
    reduction_match(gen, c, grid_clone,
        evaluate_grid_with_solve_controller(grid_clone, gen.ctl))

reduction_step(gen, c) ==
    reduction_evaluate(gen, c, delete_value(clone(gen.grid), c))

Reduce(c) ==
    /\ generator.pc = "reducing"
    /\ c \in ReductionCells \ generator.visited
    /\ generator' = reduction_step(generator, c)
    /\ UNCHANGED <<grid_vars, harness_vars, guess>>

\* return (grid, num_hints, statistics_to_return).
GeneratorReturn ==
    /\ generator.pc = "reducing"
    /\ generator.visited = ReductionCells
    /\ generator' = [generator EXCEPT !.pc = "returned"]
    /\ UNCHANGED <<grid_vars, harness_vars, guess>>

GeneratorNext ==
    \/ \E c \in ReductionCells : Reduce(c)
    \/ GeneratorReturn

GeneratorSpec == GeneratorInit /\ [][GeneratorNext]_vars

\* ------------------------------------------------------------------------
\* What the properties speak of.
\* ------------------------------------------------------------------------
\* The cells that share the row, the column or the section of c.
Peers(c) ==
    (LineSet(cell_row(c)) \cup LineSet(cell_column(c))
        \cup LineSet(cell_section(c))) \ {c}

\* The givens of g: the digit of each Fixed cell, 0 for an Unknown cell.
Givens(g) == [c \in Cells |-> IF IsFixed(g.val[c]) THEN g.val[c].digit ELSE 0]

\* The number of valid completions of the givens m, counted up to two.
Min2(a, b) == IF a < b THEN a ELSE b
NoClash(m) == \A c \in Cells : m[c] = 0 \/ \A o \in Peers(c) : m[o] # m[c]

RECURSIVE CountCompletions(_)
CountCompletions(m) ==
    IF \A c \in Cells : m[c] # 0 THEN 1
    ELSE LET c == CHOOSE c1 \in Cells :
                      m[c1] = 0 /\ \A c2 \in Cells : m[c2] = 0 => c1 <= c2
         IN  Loop(LAMBDA n, d :
                      IF n >= 2 \/ \E o \in Peers(c) : m[o] = d
                      THEN n
                      ELSE Min2(2,
                                n + CountCompletions([m EXCEPT ![c] = d])),
                  0, 1, N + 1)

Completions(m) == IF NoClash(m) THEN CountCompletions(m) ELSE 0

\* The grid of the last operation, now and when the operation started.
LastGrid == heap[Ref(last.handle)]
LastGridBefore == prev[Ref(last.handle)]

\* The last two operations were the same propagation call on one grid.
PropagatedTwice ==
    /\ last.op = "NoGuess"
    /\ before.op = "NoGuess"
    /\ before.handle = last.handle
    /\ before.ctl = last.ctl

\* ------------------------------------------------------------------------
\* Properties.
\* ------------------------------------------------------------------------
\* C1: for a grid built from the empty grid by set calls that each placed a
\* candidate of its cell, solving with every technique, guessing and
\* uniqueness tracking returns Complete(NotUnique) when the givens have two
\* or more completions, Complete(Unique) when they have one, Invalid when
\* they have none.
C1_SolveCountsCompletions ==
    (last.op = "Solve" /\ last.ctl = Challenge /\ last.built) =>
        LET n == Completions(Givens(LastGridBefore))
        IN  last.status = IF n >= 2 THEN Complete("NotUnique")
                          ELSE IF n = 1 THEN Complete("Unique")
                          ELSE Invalid

\* A built grid with two completions was solved by guessing.
C1_Witness ==
    /\ last.op = "Solve" /\ last.ctl = Challenge /\ last.built
    /\ last.st.guesses > 0
    /\ last.status = Complete("NotUnique")
    /\ Completions(Givens(LastGridBefore)) = 2

\* C3: in every grid, after any sequence of set calls, propagation, clone
\* and delete_value, the digit of each Fixed cell is no candidate of any
\* Unknown cell in its row, its column or its section.
C3_FixedDigitAbsentFromPeers ==
    \A r \in Refs : \A c \in Cells :
        IsFixed(heap[r].val[c]) =>
            \A o \in Peers(c) :
                IsUnknown(heap[r].val[o]) =>
                    heap[r].val[c].digit \notin heap[r].val[o].poss

\* After a set on a grid that keeps an Unknown cell with candidates.
C3_Witness ==
    /\ last.op = "SetCell"
    /\ IsFixed(LastGrid.val[last.cell])
    /\ \E o \in Peers(last.cell) :
           /\ IsUnknown(LastGrid.val[o])
           /\ LastGrid.val[o].poss # {}
           /\ last.digit \in LastGridBefore.val[o].poss

\* C4, as stated: a second solve_grid_no_guess on the grid the first one
\* returned changes no cell value.
C4_PropagationIdempotent ==
    PropagatedTwice => LastGrid.val = LastGridBefore.val

\* C4, amended: a second solve_grid_no_guess on the grid a first one
\* returned with Unfinished or Complete changes no cell value.
C4_IdempotentAfterFixedPoint ==
    (PropagatedTwice /\ before.status.tag \in {"Unfinished", "Complete"}) =>
        LastGrid.val = LastGridBefore.val

\* The first call changed the grid and ended Unfinished, the second ran.
C4_Witness ==
    /\ PropagatedTwice
    /\ before.status = Unfinished
    /\ before.st # SolveStatistics_new
    /\ \E c \in Cells : IsUnknown(LastGrid.val[c])

\* C5: clone() yields a grid with the 81 cell values and the 27 flags of
\* its source, and a later mutation through one handle changes no cell
\* value and no flag of the grid behind the other handle.
C5_CloneEqualAndIndependent ==
    /\ last.op = "Clone" =>
           /\ heap[copy_ref].val = heap[GridRef].val
           /\ heap[copy_ref].upd = heap[GridRef].upd
           /\ heap[GridRef] = prev[GridRef]
    /\ (copy_ref # NoRef /\ last.op # "Clone") =>
           heap[Ref(Other(last.handle))] = prev[Ref(Other(last.handle))]

\* A clone was made and the grid behind one handle was then changed.
C5_Witness ==
    /\ copy_ref # NoRef
    /\ before.op = "Clone"
    /\ last.op \in {"SetCell", "DeleteValue", "NoGuess", "Solve"}
    /\ LastGrid # LastGridBefore
    /\ heap[GridRef] # heap[copy_ref]

\* C6: solve_grid_no_guess never returns Complete while the grid has an
\* Unknown cell, with or without candidates.
C6_NoCompleteWithUnknown ==
    (last.op = "NoGuess" /\ IsComplete(last.status)) =>
        \A c \in Cells : IsFixed(LastGrid.val[c])

\* Propagation fixed the last Unknown cells and returned Complete.
C6_Witness ==
    /\ last.op = "NoGuess"
    /\ IsComplete(last.status)
    /\ \E c \in Cells : IsUnknown(LastGridBefore.val[c])

\* C7: whenever solve_grid_no_guess returns on a grid with an Unknown cell
\* that has no candidate, the status is Invalid.
C7_ContradictionIsInvalid ==
    (last.op = "NoGuess" /\ HasEmptyUnknown(LastGrid)) =>
        last.status = Invalid

\* C8: solve_grid_with_solve_controller returns Complete or Invalid, never
\* Unfinished, and does not panic.
C8_SolveNeverUnfinished ==
    last.op = "Solve" => last.status.tag \in {"Complete", "Invalid"}

\* Propagation alone would have ended Unfinished on the grid solved.
C8_Witness ==
    /\ last.op = "Solve"
    /\ last.status.tag \in {"Complete", "Invalid"}
    /\ solve_grid_no_guess(LastGridBefore, last.ctl,
                           SolveStatistics_new).status = Unfinished

\* C9: with make_guesses off and propagation ending Unfinished, solve
\* returns Complete(NotUnique), makes no clone, counts no guess and leaves
\* the grid as propagation left it.
C9_NoGuessingMeansNotUnique ==
    (last.op = "Solve" /\ ~last.ctl.make_guesses) =>
        LET r == solve_grid_no_guess(LastGridBefore, last.ctl,
                                     SolveStatistics_new)
        IN  r.status = Unfinished =>
                /\ last.status = Complete("NotUnique")
                /\ last.clones = 0
                /\ last.st.guesses = 0
                /\ last.st = r.st
                /\ LastGrid = r.g

\* Solve without guessing on a grid propagation leaves with Unknown cells.
C9_Witness ==
    /\ last.op = "Solve"
    /\ ~last.ctl.make_guesses
    /\ last.status = Complete("NotUnique")
    /\ \E c \in Cells : IsUnknown(LastGrid.val[c])
    /\ LastGrid # LastGridBefore

RECURSIVE SumOver(_, _)
SumOver(f, S) ==
    IF S = {} THEN 0
    ELSE LET x == CHOOSE x \in S : TRUE IN f[x] + SumOver(f, S \ {x})

Done == {w \in Threads : workers[w].pc = "done"}
NumAttempts == [w \in Threads |-> workers[w].num_attempts]
ThreadAttempts == [w \in Threads |-> workers[w].thread_attempts]
ChannelAttempts == [i \in DOMAIN channel |-> channel[i].attempts]

\* C11 as stated: a worker that found an acceptable puzzle has itself set
\* the cancellation flag by the time it has sent its message and exits.
C11_WorkerSetsFlag ==
    \A w \in Threads :
        (workers[w].pc = "done" /\ workers[w].result.some) => should_stop

\* C11: a worker sends what it found with its attempt count and exits, a
\* success as the puzzle of its last attempt and a failure as no result;
\* every sent message is in the channel or counted by the coordinator; the
\* cancellation flag is set exactly when the coordinator has received a
\* success, never by a worker.
C11_WorkerSendsCoordinatorSetsFlag ==
    /\ should_stop = (received # <<>>)
    /\ \A w \in Threads :
           workers[w].result.some =>
               /\ workers[w].pc \in {"send", "done"}
               /\ workers[w].result = Some(w - 1, workers[w].num_attempts)
    /\ \A i \in DOMAIN channel :
           channel[i].result.some =>
               LET w == channel[i].result.thread + 1 IN
               /\ workers[w].pc = "done"
               /\ channel[i].result = workers[w].result
               /\ channel[i].attempts = workers[w].num_attempts
    /\ Cardinality(Done)
           = Len(channel) + (arguments.threads - threads_running)
    /\ attempt_count + SumOver(ChannelAttempts, DOMAIN channel)
           = SumOver(NumAttempts, Done)

\* A worker has sent a success and exited, another has sent a failure with
\* the attempts it made, and the flag is still clear: the coordinator has
\* not received the success.
C11_Witness ==
    /\ ~should_stop
    /\ \E w \in Done : workers[w].result.some
    /\ \E i \in DOMAIN channel : channel[i].result.some
    /\ \E w \in Done : ~workers[w].result.some /\ workers[w].num_attempts > 0

set_each(g, calls) ==
    Loop(LAMBDA s, k : set(s, calls[k][1], calls[k][2]), g, 1, Len(calls) + 1)

\* cell.set_value(CellValue::Unknown(possibilities)) for each
\* <<cell, possibilities>> of calls, in order.
set_value_each(g, calls) ==
    Loop(LAMBDA s, k : set_value(s, calls[k][1], Unknown(calls[k][2])),
         g, 1, Len(calls) + 1)

\* The grid of each test when it calls its technique.
test_search_single_possibility ==
    set_each(Grid_new, [i \in 1..8 |-> <<CellAt(0, i - 1), i>>])

test_search_useful_constraint_1 ==
    set_each(Grid_new,
        <<<<CellAt(0, 3), 4>>, <<CellAt(0, 4), 5>>, <<CellAt(0, 5), 6>>,
          <<CellAt(1, 6), 1>>, <<CellAt(1, 7), 2>>, <<CellAt(1, 8), 3>>>>)

test_search_useful_constraint_2 ==
    set_value_each(
        set_each(Grid_new,
            <<<<CellAt(3, 0), 8>>, <<CellAt(3, 1), 5>>, <<CellAt(3, 2), 2>>,
              <<CellAt(5, 1), 6>>, <<CellAt(6, 1), 8>>, <<CellAt(8, 2), 7>>>>),
        <<<<CellAt(0, 1), {1, 3, 4, 7, 9}>>, <<CellAt(1, 1), {1, 3, 4, 5, 9}>>,
          <<CellAt(2, 1), {1, 2}>>, <<CellAt(4, 1), {1, 3, 4, 7}>>,
          <<CellAt(7, 1), {1, 2, 3, 9}>>, <<CellAt(8, 1), {1, 2, 3, 5, 9}>>,
          <<CellAt(1, 0), {1, 3, 4, 5, 9}>>>>)

test_hidden_single ==
    set_each(Grid_new,
        <<<<CellAt(1, 5), 1>>, <<CellAt(2, 6), 1>>, <<CellAt(5, 2), 1>>,
          <<CellAt(6, 1), 1>>, <<CellAt(1, 6), 2>>, <<CellAt(2, 5), 2>>,
          <<CellAt(5, 1), 2>>, <<CellAt(6, 0), 2>>>>)

\* Cells (0,0), (0,1) and (8,0) are empty and (3,1) is given 8: in row 0 the
\* cell (0,0) is the only place left for 8 and for 9.
TwoSinglesPuzzle == [holes |-> {0, 1, 72}, over |-> {<<28, 8>>}]

\* Cells (0,0), (0,1), (3,2) and (8,0) are empty and (3,1) is given 8 for its
\* 1: every given is a candidate when read_grid sets it, and in row 0 the
\* cell (0,0) is the only place left for 8 and for 9.
OverwritePuzzle == [holes |-> {0, 1, 29, 72}, over |-> {<<28, 8>>}]

\* Cells (2,8), (5,6), (5,8) and (8,6) are empty: a candidate removed from
\* (5,8) leaves it one candidate, and fixing it reaches column 6.
PropagatingPuzzle == [holes |-> {26, 51, 53, 78}, over |-> {}]

\* A puzzle with one completion; in section 6 the cells (6,1), (7,0), (7,1),
\* (7,2), (8,2) have the candidates 4, 5, 6, 7, 9 between them and (6,0) has
\* 3 besides.
GroupsPuzzle ==
    [holes |-> {0, 11, 20, 27, 46, 54, 55, 61, 62, 63, 64, 65, 68, 74, 75},
     over |-> {}]

\* The grids a technique is run on: those of the tests (the grid of
\* test_identify_and_process_possibility_groups is that of
\* test_search_useful_constraint_1) and grids read from puzzles.
Fixtures ==
    {test_search_single_possibility, test_search_useful_constraint_1,
     test_search_useful_constraint_2, test_hidden_single}
        \cup {read_grid(Matrix(p)) :
                 p \in {TwoSinglesPuzzle, PropagatingPuzzle, GroupsPuzzle,
                       TwoPassPuzzle}}

\* The set calls that may follow: <<cell, digit>>.
FixtureSets == {<<CellAt(2, 6), 9>>, <<CellAt(2, 0), 7>>}

\* let grid = Grid::new(); followed by the set calls of a test or read_grid.
Fixture(g) ==
    /\ last.op = "New"
    /\ heap' = [heap EXCEPT ![GridRef] = g]
    /\ built' = [built EXCEPT ![GridRef] = FALSE]
    /\ last' = PlainOp("Fixture", "grid", NoCell, 0)
    /\ before' = last
    /\ prev' = heap
    /\ UNCHANGED <<copy_ref, nops>>
    /\ UNCHANGED <<harness_vars, generator, guess>>

\* A technique has run on line l of the grid and returned r: last.cell
\* holds l, last.digit counts made_change, last.status a panic.
TechniqueReturned(name, l, r) ==
    /\ Started
    /\ last.op \in {"Fixture", "SetCell"}
    /\ heap' = [heap EXCEPT ![GridRef] = r.g]
    /\ built' = [built EXCEPT ![GridRef] = FALSE]
    /\ last' = Op(name, "grid", l, IF r.made THEN 1 ELSE 0, NoController,
                  IF r.panic THEN Panic ELSE NoStatus, SolveStatistics_new, 0)
    /\ before' = last
    /\ prev' = heap
    /\ nops' = nops + 1
    /\ UNCHANGED copy_ref
    /\ UNCHANGED <<harness_vars, generator, guess>>

SearchSinglePossibility(l) ==
    TechniqueReturned("search_single_possibility", l,
                      search_single_possibility(heap[GridRef], l))

SearchHiddenSingle(l) ==
    TechniqueReturned("search_hidden_single", l,
                      search_hidden_single(heap[GridRef], l))

IdentifyAndProcessPossibilityGroups(l) ==
    TechniqueReturned("identify_and_process_possibility_groups", l,
                      identify_and_process_possibility_groups(heap[GridRef], l))

SearchUsefulConstraint(l) ==
    TechniqueReturned("search_useful_constraint", l,
                      search_useful_constraint(heap[GridRef], l))

\* The controllers solve_line is called with: every technique, hidden
\* singles alone, singles and hidden singles.
LineControllers == {Challenge, HiddenSinglesOnly, Easy}

\* solve_line has run on line l and left s: last.cell holds l, last.st the
\* statistics, last.status a panic.
LineReturned(l, solve_controller, s) ==
    /\ heap' = [heap EXCEPT ![GridRef] = s.g]
    /\ last' = Op("solve_line", "grid", l, 0, solve_controller,
                  IF s.panic THEN Panic ELSE NoStatus, s.st, 0)

\* "if line_ref.do_update() { solve_line(&grid, line_ref, solve_controller,
\* solve_statistics) }" with new statistics.
SolveLine(l, solve_controller) ==
    /\ Started
    /\ last.op \in {"Fixture", "SetCell"}
    /\ heap[GridRef].upd[l]
    /\ LineReturned(l, solve_controller,
           solve_line([g |-> heap[GridRef], st |-> SolveStatistics_new,
                       ran_something |-> FALSE, panic |-> FALSE],
                      l, solve_controller))
    /\ built' = [built EXCEPT ![GridRef] = FALSE]
    /\ before' = last
    /\ prev' = heap
    /\ nops' = nops + 1
    /\ UNCHANGED copy_ref
    /\ UNCHANGED <<harness_vars, generator, guess>>

TechniqueNext ==
    \/ \E g \in Fixtures : Fixture(g)
    \/ \E s \in FixtureSets : SetCell("grid", s[1], s[2])
    \/ \E l \in Lines : SearchSinglePossibility(l)
    \/ \E l \in Lines : SearchHiddenSingle(l)
    \/ \E l \in Lines : IdentifyAndProcessPossibilityGroups(l)
    \/ \E l \in Lines : SearchUsefulConstraint(l)

TechniqueSpec == Init /\ [][TechniqueNext]_vars

\* solve_line, or one technique, on one line of a grid as the tests and
\* read_grid build it.
LineFixtures == Fixtures \cup {read_grid(Matrix(OverwritePuzzle))}

LineNext ==
    \/ \E g \in LineFixtures : Fixture(g)
    \/ \E l \in Lines : SearchSinglePossibility(l)
    \/ \E l \in Lines : SearchHiddenSingle(l)
    \/ \E l \in Lines : IdentifyAndProcessPossibilityGroups(l)
    \/ \E l \in Lines : SearchUsefulConstraint(l)
    \/ \E l \in Lines, solve_controller \in LineControllers :
           SolveLine(l, solve_controller)

LineSpec == Init /\ [][LineNext]_vars

\* The grid before and after the last operation, and its line.
Was == prev[GridRef]
Now == heap[GridRef]

\* The cells of line l that carry digit: Fixed to it or Unknown with it as
\* a candidate.
Carries(v, digit) ==
    (IsFixed(v) /\ v.digit = digit) \/ (IsUnknown(v) /\ digit \in v.poss)

Carriers(g, l, digit) == {c \in LineSet(l) : Carries(g.val[c], digit)}

\* The lines of the other kind: rows and columns for a section, sections
\* for a row or a column.
OtherLines(l) ==
    {m \in Lines : (LineType(l) = SECTION) # (LineType(m) = SECTION)}

\* Digit is confined, within line l of g, to the line m.
Pointing(g, l, digit, m) ==
    /\ m \in OtherLines(l)
    /\ Carriers(g, l, digit) # {}
    /\ Carriers(g, l, digit) \subseteq LineSet(m)

\* C13 as stated: after search_useful_constraint on a line, every digit
\* 1-9 confined within the line to one line of the other kind is no
\* candidate of the cells of that other line outside the line, and the
\* cells of the line are as they were.
C13_PointingConstraint ==
    last.op = "search_useful_constraint" =>
        \A digit \in Digits, m \in Lines :
            Pointing(Was, last.cell, digit, m) =>
                /\ \A c \in LineSet(m) \ LineSet(last.cell) :
                       ~(IsUnknown(Now.val[c]) /\ digit \in Now.val[c].poss)
                /\ \A c \in LineSet(last.cell) : Now.val[c] = Was.val[c]

\* The grid when the body of the outer loop of search_useful_constraint on
\* line l of g starts for possibility (when the loop ends, for
\* UsefulConstraintEnd).
useful_constraint_before(g, l, possibility) ==
    Loop(LAMBDA r, p : search_useful_constraint_digit(r, p, l),
         NoChange(g), UsefulConstraintFirst, possibility).g

\* Every digit that one pass of the outer loop, from grid b to grid a, took
\* from a cell is the possibility of the pass, confined within line l to a
\* line of the other kind that holds the cell, or is the digit a peer of
\* the cell was fixed to in the pass.
OnlyPointingRemoved(b, a, l, possibility) ==
    \A c \in Cells, digit \in Digits :
        (IsUnknown(b.val[c]) /\ digit \in b.val[c].poss
              /\ ~Carries(a.val[c], digit)) =>
            \/ /\ digit = possibility
               /\ c \notin LineSet(l)
               /\ \E m \in Lines : Pointing(b, l, digit, m) /\ c \in LineSet(m)
            \/ \E q \in Peers(c) :
                   a.val[q] = Fixed(digit) /\ b.val[q] # Fixed(digit)

\* C14: search_useful_constraint takes a digit from a cell only in the pass
\* for that digit and only when the cells of the line that carry it all lie
\* in one line of the other kind, the cell being in that line and outside
\* the processed one (or when Cell::set of a cell it fixed takes it); on the
\* grid of test_search_useful_constraint_2, column 1 leaves (1,0) at
\* {1,3,4,5,9}.
C14_NeverOverEliminates ==
    last.op = "search_useful_constraint" =>
        /\ useful_constraint_before(Was, last.cell, UsefulConstraintEnd) = Now
        /\ \A p \in UsefulConstraintFirst..(UsefulConstraintEnd - 1) :
               OnlyPointingRemoved(
                   useful_constraint_before(Was, last.cell, p),
                   useful_constraint_before(Was, last.cell, p + 1),
                   last.cell, p)
        /\ (Was = test_search_useful_constraint_2
                /\ last.cell = ColumnLine(1)) =>
               Now.val[CellAt(1, 0)] = Unknown({1, 3, 4, 5, 9})

\* search_useful_constraint ran on column 1 of the grid of
\* test_search_useful_constraint_2, where 5 is carried by cells of three
\* sections, and (1,0) still has 5.
C14_Witness ==
    /\ last.op = "search_useful_constraint"
    /\ last.cell = ColumnLine(1)
    /\ Was = test_search_useful_constraint_2
    /\ Cardinality({cell_section(c) : c \in Carriers(Was, last.cell, 5)}) = 3
    /\ 5 \in Now.val[CellAt(1, 0)].poss

\* The Unknown cells of line l of g that have digit as a candidate.
Places(g, l, digit) ==
    {c \in LineSet(l) : IsUnknown(g.val[c]) /\ digit \in g.val[c].poss}

\* The digits cell c is the only place of, in line l of g.
OnlyPlaceOf(g, l, c) == {digit \in Digits : Places(g, l, digit) = {c}}

Largest(S) == CHOOSE x \in S : \A y \in S : y <= x

\* C15 as stated: after search_hidden_single on a line, every digit that
\* was a candidate of exactly one Unknown cell of the line is the value that
\* cell is Fixed to.
C15_HiddenSingle ==
    last.op = "search_hidden_single" =>
        \A digit \in Digits, c \in Cells :
            Places(Was, last.cell, digit) = {c} => Now.val[c] = Fixed(digit)

\* C15: after search_hidden_single on a line, every cell that was the only
\* Unknown cell of the line with some digit as a candidate is Fixed, to that
\* digit when there is one such digit and to the largest of them when the
\* cell was the only place of several; on the grid of test_hidden_single
\* row 0 fixes (0,0) to 1 and (0,2) to 2.
C15_HiddenSingleLargestWins ==
    last.op = "search_hidden_single" =>
        /\ \A c \in LineSet(last.cell) :
               OnlyPlaceOf(Was, last.cell, c) # {} =>
                   Now.val[c] = Fixed(Largest(OnlyPlaceOf(Was, last.cell, c)))
        /\ (Was = test_hidden_single /\ last.cell = RowLine(0)) =>
               /\ Now.val[CellAt(0, 0)] = Fixed(1)
               /\ Now.val[CellAt(0, 2)] = Fixed(2)

\* search_hidden_single ran on row 0 of the grid of test_hidden_single,
\* where every cell has the candidates 3..9 and 1 and 2 have one place each.
C15_Witness ==
    /\ last.op = "search_hidden_single"
    /\ last.cell = RowLine(0)
    /\ Was = test_hidden_single
    /\ Places(Was, last.cell, 1) = {CellAt(0, 0)}
    /\ Places(Was, last.cell, 2) = {CellAt(0, 2)}
    /\ Cardinality(Places(Was, last.cell, 3)) = N
    /\ Now.val[CellAt(0, 0)] = Fixed(1)

\* The faux line the do-while loop of the outermost bisect_possibility_groups
\* on line l of g ends with; <<>> when it returns before the loop.
FoundFauxLine(g, l) ==
    IF num_out_group(faux_line_setup(g, l, 0..(N - 1))) <= 2 THEN <<>>
    ELSE bisect_loop(faux_line_setup(g, l, 0..(N - 1)), 0)

\* The cells of line l the faux line has in the group, or out of it.
GroupCells(faux_line, l, in_group) ==
    {line_get(l, faux_line[k].index) :
        k \in {j \in 1..Len(faux_line) : faux_line[j].in_group = in_group}}

\* The candidates of the cells S of g together.
CandidatesOf(g, S) == UNION {g.val[c].poss : c \in S}

\* With the faux line the procedure found: k cells in the group with k
\* digits together and cells left out; then no cell left out carries one of
\* the k digits and the k cells are as they were.
GroupSeparated(faux_line, l) ==
    (/\ num_out_group(faux_line) > 0
     /\ Cardinality(GroupCells(faux_line, l, TRUE))
           = Cardinality(CandidatesOf(Was, GroupCells(faux_line, l, TRUE)))) =>
        /\ \A c \in GroupCells(faux_line, l, FALSE) :
               \A digit \in CandidatesOf(Was, GroupCells(faux_line, l, TRUE)) :
                   ~Carries(Now.val[c], digit)
        /\ \A c \in GroupCells(faux_line, l, TRUE) : Now.val[c] = Was.val[c]

\* C16: when the greedy procedure of identify_and_process_possibility_groups
\* on a line finds k Unknown cells whose candidates together are k digits
\* while other Unknown cells remain, then on return none of those k digits
\* is a candidate of another Unknown cell of the line and the k cells have
\* the candidates they had; on the grid of
\* test_identify_and_process_possibility_groups row 0 takes (0,0) from
\* {1,2,3,7,8,9} to {1,2,3}.
C16_PossibilityGroups ==
    last.op = "identify_and_process_possibility_groups" =>
        /\ GroupSeparated(FoundFauxLine(Was, last.cell), last.cell)
        /\ (Was = test_search_useful_constraint_1 /\ last.cell = RowLine(0)) =>
               /\ Was.val[CellAt(0, 0)] = Unknown({1, 2, 3, 7, 8, 9})
               /\ Now.val[CellAt(0, 0)] = Unknown({1, 2, 3})

\* C17: set(c, d) makes c Fixed(d), takes d from the candidates of the
\* Unknown cells of c's row, column and section, which stay Unknown whatever
\* is left, and changes the value of no other cell; on the grid of
\* test_search_single_possibility (0,8) is Unknown with the single candidate
\* 9 after the eight set calls and Fixed(9) after search_single_possibility
\* on row 0.
C17_SetFixesOnlyItsCell ==
    /\ last.op = "SetCell" =>
           /\ Now.val[last.cell] = Fixed(last.digit)
           /\ \A p \in Cells \ {last.cell} :
                  Now.val[p] =
                      IF p \in Peers(last.cell) /\ IsUnknown(Was.val[p])
                      THEN Unknown(Was.val[p].poss \ {last.digit})
                      ELSE Was.val[p]
    /\ (last.op = "Fixture" /\ Now = test_search_single_possibility) =>
           Now.val[CellAt(0, 8)] = Unknown({9})
    /\ (last.op = "search_single_possibility" /\ last.cell = RowLine(0)
            /\ Was = test_search_single_possibility) =>
           Now.val[CellAt(0, 8)] = Fixed(9)

\* A set call took its digit from a peer that had two candidates: the peer
\* is Unknown with the one left.
C17_Witness ==
    /\ last.op = "SetCell"
    /\ \E p \in Peers(last.cell) :
           /\ IsUnknown(Was.val[p])
           /\ Cardinality(Was.val[p].poss) = 2
           /\ IsUnknown(Now.val[p])
           /\ Cardinality(Now.val[p].poss) = 1
    /\ \E p \in Cells \ Peers(last.cell) : IsUnknown(Now.val[p])
    /\ \E p \in Peers(last.cell) : IsFixed(Was.val[p])

\* C18: when solve_grid_no_guess returns Unfinished no line of the grid is
\* marked for an update and some cell is Unknown; when it returns on a grid
\* whose cells are all Fixed the status is Complete.
C18_StatusOnReturn ==
    last.op = "NoGuess" =>
        /\ last.status = Unfinished =>
               /\ \A l \in Lines : ~LastGrid.upd[l]
               /\ \E c \in Cells : IsUnknown(LastGrid.val[c])
        /\ (\A c \in Cells : IsFixed(LastGrid.val[c])) =>
               IsComplete(last.status)

\* ------------------------------------------------------------------------
\* solve_grid_guess branch by branch: the loop over the possibilities of
\* the smallest cell, each call on grid_copy returning one of the statuses
\* solve_grid_with_solve_controller can return under the controller.
\* ------------------------------------------------------------------------
\* Guessing without looking for uniqueness.
FirstSolution == SolveController(FALSE, TRUE, TRUE, TRUE, TRUE, TRUE)

GuessControllers == {Challenge, FirstSolution}

\* What a call on grid_copy can return when guesses are made: the status
\* of solve_grid_no_guess, or that of a nested solve_grid_guess.
BranchStatuses(solve_controller) ==
    IF solve_controller.determine_uniqueness
    THEN {Invalid, Complete("Unique"), Complete("NotUnique")}
    ELSE {Invalid, Complete("Unique"), Complete("None")}

\* solve_grid_guess has found the smallest cell, with 1..9 possibilities.
GuessInit ==
    /\ GridInit
    /\ HarnessIdle
    /\ GeneratorIdle
    /\ \E solve_controller \in GuessControllers, possibilities \in 1..N :
           guess = [pc |-> "loop", ctl |-> solve_controller,
                    possibilities |-> possibilities,
                    a |-> guess_loop_start(Grid_new, SolveStatistics_new),
                    branches |-> <<>>, status |-> NoStatus]

\* One pass of the for loop: the call on grid_copy returned status.
Branch(status) ==
    /\ guess.pc = "loop"
    /\ ~guess.a.broke
    /\ Len(guess.branches) < guess.possibilities
    /\ guess' = [guess EXCEPT
                    !.a = guess_returned(guess.a,
                              Returned(Grid_new, status, guess.a.st, 0),
                              guess.ctl),
                    !.branches = Append(@, status)]
    /\ UNCHANGED <<grid_vars, harness_vars, generator>>

\* "We've finished the for-loop", by a break or at the last possibility.
GuessReturn ==
    /\ guess.pc = "loop"
    /\ guess.a.broke \/ Len(guess.branches) = guess.possibilities
    /\ guess' = [guess EXCEPT
                    !.pc = "returned",
                    !.status = guess_finished(Grid_new, guess.a).status]
    /\ UNCHANGED <<grid_vars, harness_vars, generator>>

GuessNext ==
    \/ \E status \in BranchStatuses(guess.ctl) : Branch(status)
    \/ GuessReturn

GuessSpec == GuessInit /\ [][GuessNext]_vars

\* The branches of bs that returned Complete.
CompleteBranches(bs) == {i \in DOMAIN bs : IsComplete(bs[i])}

\* The accumulator the branch results bs call for: NotUnique after a
\* NotUnique branch or two Complete ones, Unique after one Unique branch,
\* Unfinished when every branch was Invalid.
Accumulated(bs) ==
    IF \/ \E i \in DOMAIN bs : bs[i] = Complete("NotUnique")
       \/ Cardinality(CompleteBranches(bs)) >= 2
    THEN Complete("NotUnique")
    ELSE IF CompleteBranches(bs) # {} THEN Complete("Unique")
    ELSE Unfinished

\* C19: with determine_uniqueness on, the accumulator of solve_grid_guess
\* is after every branch what the results of the branches so far call for,
\* which the Invalid ones do not count in; no branch is run once it is
\* NotUnique; and
\* the status returned is Invalid when every branch was Invalid,
\* Complete(Unique) when one branch was Complete(Unique), every other
\* candidate was tried and was Invalid, and Complete(NotUnique) when a
\* branch was Complete(NotUnique) or two were Complete.
C19_StatusFromBranches ==
    (guess.pc # "idle" /\ guess.ctl.determine_uniqueness) =>
        /\ guess.a.current_status = Accumulated(guess.branches)
        /\ guess.a.broke = (Accumulated(guess.branches) = Complete("NotUnique"))
        /\ \A i \in DOMAIN guess.branches :
               i < Len(guess.branches) =>
                   Accumulated(SubSeq(guess.branches, 1, i))
                       # Complete("NotUnique")
        /\ guess.pc = "returned" =>
               /\ guess.status =
                      IF Accumulated(guess.branches) = Unfinished
                      THEN Invalid
                      ELSE Accumulated(guess.branches)
               /\ guess.status = Complete("Unique") =>
                      Len(guess.branches) = guess.possibilities

\* solve_grid_guess returned Complete(Unique) after an Invalid branch, a
\* Complete(Unique) branch and another Invalid branch.
C19_Witness ==
    /\ guess.pc = "returned"
    /\ guess.ctl.determine_uniqueness
    /\ guess.branches = <<Invalid, Complete("Unique"), Invalid>>
    /\ guess.status = Complete("Unique")

\* C20: with determine_uniqueness off, solve_grid_guess runs no branch after
\* one that returned Complete and returns Complete(None) when a branch did,
\* Invalid when none did; with determine_uniqueness on it never returns
\* Complete(None).
C20_StopsAtFirstSolution ==
    /\ (guess.pc # "idle" /\ ~guess.ctl.determine_uniqueness) =>
           /\ \A i \in DOMAIN guess.branches :
                  i < Len(guess.branches) => ~IsComplete(guess.branches[i])
           /\ guess.a.broke = (CompleteBranches(guess.branches) # {})
           /\ guess.pc = "returned" =>
                  guess.status = IF CompleteBranches(guess.branches) # {}
                                 THEN Complete("None")
                                 ELSE Invalid
    /\ (guess.pc = "returned" /\ guess.ctl.determine_uniqueness) =>
           guess.status # Complete("None")

\* Without determine_uniqueness solve_grid_guess returned Complete(None)
\* after an Invalid branch and a Complete(Unique) one, with candidates left.
C20_Witness ==
    /\ guess.pc = "returned"
    /\ ~guess.ctl.determine_uniqueness
    /\ guess.branches = <<Invalid, Complete("Unique")>>
    /\ guess.possibilities > 2
    /\ guess.status = Complete("None")


\* ------------------------------------------------------------------------
\* The branches of solve_grid_guess and the caller's grid.
\* ------------------------------------------------------------------------
\* What solve_grid_no_guess returned inside the last solver call.
Propagated ==
    solve_grid_no_guess(LastGridBefore, last.ctl, SolveStatistics_new)

\* What the branch of solve_grid_guess for digit returns, g the grid of the
\* caller.
BranchOf(g, digit, solve_controller) ==
    solve_grid_with_solve_controller(
        set(clone(g), find_smallest_cell(g), digit), solve_controller,
        SolveStatistics_new)

\* TRUE iff now is the final grid of a branch on g that returned Complete.
IsCompleteBranchOf(g, now, solve_controller) ==
    /\ find_smallest_cell(g) # NoCell
    /\ \E digit \in get_value_possibilities(g, find_smallest_cell(g)) :
           /\ IsComplete(BranchOf(g, digit, solve_controller).status)
           /\ now = BranchOf(g, digit, solve_controller).g

\* C21: when solve_grid_guess returns Invalid the caller's grid is as
\* propagation left it; when it returns Complete the caller's grid is, cell
\* values and line flags, the final grid of a branch that returned Complete.
C21_BranchesLeaveParentGrid ==
    (last.op = "Solve" /\ last.ctl.make_guesses) =>
        (Propagated.status = Unfinished =>
            /\ last.status = Invalid => LastGrid = Propagated.g
            /\ IsComplete(last.status) =>
                   IsCompleteBranchOf(Propagated.g, LastGrid, last.ctl))

\* solve_grid_guess returned Complete after a branch that failed and left
\* its grid_copy other than the caller's grid.
C21_Witness ==
    /\ last.op = "Solve"
    /\ last.ctl.make_guesses
    /\ Propagated.status = Unfinished
    /\ IsComplete(last.status)
    /\ LastGrid # Propagated.g
    /\ \E digit \in get_value_possibilities(Propagated.g,
                        find_smallest_cell(Propagated.g)) :
           ~IsComplete(BranchOf(Propagated.g, digit, last.ctl).status)


\* ------------------------------------------------------------------------
\* solve_line on a line marked for an update.
\* ------------------------------------------------------------------------
\* The techniques in the order of the claim, with the SolveAction counted.
TechniqueOrder ==
    <<"Single", "HiddenSingle", "PossibilityGroup", "UsefulConstraints">>

TechniqueEnabled(solve_controller, k) ==
    IF k = 1 THEN solve_controller.search_singles
    ELSE IF k = 2 THEN solve_controller.search_hidden_singles
    ELSE IF k = 3 THEN solve_controller.find_possibility_groups
    ELSE solve_controller.search_useful_constraint

RunTechnique(g, l, k) ==
    IF k = 1 THEN search_single_possibility(g, l)
    ELSE IF k = 2 THEN search_hidden_single(g, l)
    ELSE IF k = 3 THEN identify_and_process_possibility_groups(g, l)
    ELSE search_useful_constraint(g, l)

\* s is [g, st, panic] before technique k, r what the technique returned.
TechniqueCounted(s, r, k) ==
    [g |-> r.g,
     st |-> IF r.made THEN SolveStatistics_increment(s.st, TechniqueOrder[k])
            ELSE s.st,
     panic |-> r.panic]

TechniqueApplied(s, l, solve_controller, k) ==
    IF s.panic \/ ~TechniqueEnabled(solve_controller, k) THEN s
    ELSE TechniqueCounted(s, RunTechnique(s.g, l, k), k)

\* The grid and the statistics after the flag of l is cleared and the first
\* k techniques are applied in order, the disabled ones skipped.
RECURSIVE AfterTechniques(_, _, _, _)
AfterTechniques(g, l, solve_controller, k) ==
    IF k = 0
    THEN [g |-> [g EXCEPT !.upd[l] = FALSE], st |-> SolveStatistics_new,
          panic |-> FALSE]
    ELSE TechniqueApplied(AfterTechniques(g, l, solve_controller, k - 1),
                          l, solve_controller, k)

\* The flag is cleared first, the enabled techniques follow in order, a
\* disabled technique changes nothing and counts nothing.
InOrderIfEnabled ==
    /\ Now = AfterTechniques(Was, last.cell, last.ctl, 4).g
    /\ last.st = AfterTechniques(Was, last.cell, last.ctl, 4).st
    /\ ~last.ctl.search_singles => last.st.singles = 0
    /\ ~last.ctl.search_hidden_singles => last.st.hidden_singles = 0
    /\ ~last.ctl.find_possibility_groups => last.st.possibility_groups = 0
    /\ ~last.ctl.search_useful_constraint => last.st.useful_constraints = 0

ChangedInLine(l) == \E c \in LineSet(l) : Now.val[c] # Was.val[c]

\* C22 (as claimed): solve_line clears the flag of the line first and then
\* applies the enabled techniques in order, a disabled technique changing
\* and counting nothing; and when a cell of the line changed, the line is
\* marked for an update again.
C22_SolveLine ==
    (last.op = "solve_line" /\ last.status # Panic) =>
        /\ InOrderIfEnabled
        /\ ChangedInLine(last.cell) => Now.upd[last.cell]

\* C22 (amended): the same, the line being marked again when a cell of it
\* changed and it still holds an Unknown cell.
C22_SolveLineRemarksUnlessFixed ==
    (last.op = "solve_line" /\ last.status # Panic) =>
        /\ InOrderIfEnabled
        /\ (/\ ChangedInLine(last.cell)
            /\ \E c \in LineSet(last.cell) : IsUnknown(Now.val[c]))
               => Now.upd[last.cell]

\* solve_line with a technique disabled changed a cell of its line, which
\* still holds an Unknown cell, and counted a technique.
C22_Witness ==
    /\ last.op = "solve_line"
    /\ last.status # Panic
    /\ ~last.ctl.search_singles
    /\ ChangedInLine(last.cell)
    /\ \E c \in LineSet(last.cell) : IsUnknown(Now.val[c])
    /\ last.st.hidden_singles = 1


\* ------------------------------------------------------------------------
\* solve_grid_with_solve_controller step by step: one pass of the loop of
\* solve_grid_no_guess at a time, and after an Unfinished return one branch
\* of solve_grid_guess, whichever digit it is for.  last.status is NoStatus
\* while the loop runs and the status returned once it has returned; nops
\* is the parity of the number of steps.
\* ------------------------------------------------------------------------
\* The grids and controllers of the calls: the fixtures without guessing,
\* the puzzles with and without.
\* Forty-five cells empty: the passes and the guesses of the search are
\* many.
SparsePuzzle ==
    [holes |-> {0, 2, 3, 4, 5, 6, 7, 8, 10, 11, 12, 13, 15, 16, 22, 26, 27,
                30, 31, 32, 33, 34, 39, 40, 41, 42, 43, 45, 47, 50, 51, 54,
                55, 57, 59, 60, 62, 64, 66, 67, 68, 70, 72, 76, 77},
     over |-> {}]

ScanCalls ==
    (Fixtures \X {Hard, Easy})
        \cup ({read_grid(Matrix(p)) :
                  p \in Puzzles \cup {GroupsPuzzle, SparsePuzzle}}
                 \X Controllers)

\* The end of a pass that goes round again when no line was processed.
pass_status_no_quiet_return(s) ==
    IF s.panic THEN Panic
    ELSE IF HasEmptyUnknown(s.g) THEN Invalid
    ELSE IF appears_complete(s.g) THEN Complete("Unique")
    ELSE NoStatus

\* What the end of a pass does with s, the state the three for-loops left:
\* the status returned, NoStatus when the loop goes round again.
pass_status(s) ==
    IF s.panic THEN Panic
    ELSE IF ~s.ran_something THEN Unfinished
    ELSE IF HasEmptyUnknown(s.g) THEN Invalid
    ELSE IF appears_complete(s.g) THEN Complete("Unique")
    ELSE NoStatus

\* solve_grid_with_solve_controller(&mut grid, &solve_controller, ..).
SolveCalled(g, solve_controller) ==
    /\ last.op = "New"
    /\ heap' = [heap EXCEPT ![GridRef] = g]
    /\ last' = Op("solve", "grid", NoCell, 0, solve_controller, NoStatus,
                  SolveStatistics_new, 0)
    /\ before' = last
    /\ prev' = heap
    /\ nops' = (nops + 1) % 2
    /\ UNCHANGED <<copy_ref, built>>
    /\ UNCHANGED <<harness_vars, generator, guess>>

\* The three for-loops have left s.
PassDone(s) ==
    /\ heap' = [heap EXCEPT ![GridRef] = s.g]
    /\ last' = Op("pass", "grid", NoCell, 0, last.ctl, pass_status(s),
                  s.st, 0)

\* One pass of the loop of solve_grid_no_guess.
Pass ==
    /\ last.op \in {"solve", "pass", "branch"}
    /\ last.status = NoStatus
    /\ \E s \in {scan_round(heap[GridRef], last.ctl, last.st)} : PassDone(s)
    /\ before' = last
    /\ prev' = heap
    /\ nops' = (nops + 1) % 2
    /\ UNCHANGED <<copy_ref, built>>
    /\ UNCHANGED <<harness_vars, generator, guess>>

\* solve_grid_no_guess returned Unfinished and solve_grid_guess runs the
\* branch of digit: grid_copy = grid.clone(), set(digit) on the smallest
\* cell, and the solver is called on grid_copy.
BranchCalled(digit) ==
    /\ last.op = "pass"
    /\ last.status = Unfinished
    /\ last.ctl.make_guesses
    /\ \E smallest_cell \in {find_smallest_cell(heap[GridRef])} :
           /\ smallest_cell # NoCell
           /\ digit \in get_value_possibilities(heap[GridRef], smallest_cell)
           /\ heap' = [heap EXCEPT ![GridRef] =
                          set(clone(heap[GridRef]), smallest_cell, digit)]
           /\ last' = Op("branch", "grid", smallest_cell, digit, last.ctl,
                         NoStatus,
                         SolveStatistics_increment(last.st, "Guess"), 0)
    /\ before' = last
    /\ prev' = heap
    /\ nops' = (nops + 1) % 2
    /\ UNCHANGED <<copy_ref, built>>
    /\ UNCHANGED <<harness_vars, generator, guess>>

ScanNext ==
    \/ \E call \in ScanCalls : SolveCalled(call[1], call[2])
    \/ Pass
    \/ \E digit \in Digits : BranchCalled(digit)

\* TRUE iff find_smallest_cell finds a cell: an Unknown cell with a
\* candidate.
HasCandidateCell(g) ==
    \E c \in Cells : IsUnknown(g.val[c]) /\ g.val[c].poss # {}

\* The program goes on while the call has neither returned nor panicked:
\* a step is then taken, and every step changes nops.
Running ==
    /\ last.op = "New" \/ last.status = NoStatus
          \/ (/\ last.status = Unfinished
              /\ last.ctl.make_guesses
              /\ HasCandidateCell(heap[GridRef]))
    /\ nops' = (nops + 1) % 2

ScanSpec == Init /\ [][ScanNext]_vars /\ WF_nops(Running)

\* The call under way has returned, and no branch is left to call in it.
ScanReturned ==
    /\ last.op = "pass"
    /\ \/ last.status \in {Invalid, Complete("Unique")}
       \/ /\ last.status = Unfinished
          /\ \/ ~last.ctl.make_guesses
             \/ ~HasCandidateCell(heap[GridRef])

\* C23: the loop of solve_grid_no_guess returns after finitely many passes
\* (no line marked, every cell Fixed, or an Unknown cell without candidate),
\* and every chain of branches of the guess search ends.
C23_SolvingTerminates == <>ScanReturned

\* A pass that did not return.
C23_Witness ==
    /\ last.op = "pass"
    /\ last.status = NoStatus
    /\ before.op = "branch"


\* ------------------------------------------------------------------------
\* The messages of a run of run_multi_threaded.
\* ------------------------------------------------------------------------
\* The messages the coordinator has received.
NumReceived == arguments.threads - threads_running

\* Every message was sent by a worker that then exited, one per worker.
OneMessagePerWorker == Cardinality(Done) = Len(channel) + NumReceived

\* What run_multi_threaded returned is what the workers reported.
ReturnedWhatWasReported ==
    returned.done =>
        /\ Done = Threads
        /\ channel = <<>>
        /\ NumReceived = Cardinality(Threads)
        /\ returned.attempts = SumOver(NumAttempts, Threads)
        /\ (\E w \in Threads : workers[w].result.some) => returned.result.some

\* C24: every worker sends one message and no more; the coordinator
\* eventually returns, having received one message from each worker, with
\* the sum of the attempts the workers reported and with a puzzle when a
\* worker reported a success.
C24_CoordinatorReturns ==
    /\ [](OneMessagePerWorker /\ ReturnedWhatWasReported)
    /\ <>returned.done

\* run_multi_threaded returned a puzzle after a worker had reported a
\* success and another a failure after its attempts.
C24_Witness ==
    /\ returned.done
    /\ returned.result.some
    /\ \E w \in Threads : workers[w].result.some /\ workers[w].num_attempts > 1
    /\ \E w \in Threads : ~workers[w].result.some /\ workers[w].num_attempts > 0


\* ------------------------------------------------------------------------
\* The cancellation flag and the attempts of a worker.
\* ------------------------------------------------------------------------
\* The next step of worker w, if it takes one, ends its attempt: the
\* attempt is counted, whatever should_stop is.
AttemptCompletes(w) ==
    (workers[w].attempting /\ workers'[w] # workers[w]) =>
        /\ workers'[w].num_attempts = workers[w].num_attempts + 1
        /\ ~workers'[w].attempting

\* Worker w starts an attempt only from the loop condition, read as true
\* with should_stop loaded as false.
AttemptStartsAtCondition(w) ==
    (~workers[w].attempting /\ workers'[w].attempting) =>
        /\ workers[w].pc = "loop"
        /\ workers[w].num_attempts < workers[w].thread_attempts
        /\ FALSE \in LoadShouldStop

\* Worker w has left its loop: it makes no attempt any more.
NoAttemptAfterExit(w) ==
    workers[w].pc \in {"send", "done"} =>
        /\ workers'[w].pc \in {"send", "done"}
        /\ workers'[w].num_attempts = workers[w].num_attempts
        /\ ~workers'[w].attempting

\* Worker w left its loop with attempts to spare and no puzzle: it read
\* should_stop as set.
Cancelled(w) ==
    /\ w \in Threads
    /\ workers[w].pc \in {"send", "done"}
    /\ ~workers[w].result.some
    /\ workers[w].num_attempts < workers[w].thread_attempts

\* C25: an attempt that has started is completed and counted whatever the
\* flag becomes, an attempt starts only at the loop condition with the flag
\* read as clear, and a worker that read the flag as set makes no further
\* attempt, sends its report and exits.
C25_CooperativeCancellation ==
    /\ [][\A w \in Threads : /\ AttemptCompletes(w)
                             /\ AttemptStartsAtCondition(w)
                             /\ NoAttemptAfterExit(w)]_vars
    /\ \A w \in 1..MaxThreads :
           Cancelled(w) ~> (Cancelled(w) /\ workers[w].pc = "done")

\* An attempt is under way with the flag set while another worker, which
\* read the flag as set, has sent its report and exited.
C25_Witness ==
    /\ should_stop
    /\ \E v \in Threads : workers[v].attempting
    /\ \E w \in Threads : Cancelled(w) /\ workers[w].pc = "done"


\* ------------------------------------------------------------------------
\* The reduction loop of generate_grid, visit by visit.
\* ------------------------------------------------------------------------
\* The grid of the generator with the value of c deleted on a clone.
Cleared(c) == delete_value(clone(generator.grid), c)

\* The visit of c took the clone for the grid exactly when the evaluation
\* of the clone was Complete(Unique), and left the grid as it was when it
\* was Complete(NotUnique); status is the status of the evaluation.
VisitOf(c, status) ==
    /\ generator'.visited = generator.visited \cup {c}
    /\ generator'.pc = "reducing"
    /\ \/ /\ status = Complete("Unique")
          /\ generator'.grid = Cleared(c)
          /\ generator'.num_hints = generator.num_hints - 1
       \/ /\ status = Complete("NotUnique")
          /\ generator'.grid = generator.grid
          /\ generator'.num_hints = generator.num_hints

\* A step of the loop is the visit of a cell not visited before.
IsVisit ==
    (generator.pc = "reducing" /\ generator'.visited # generator.visited) =>
        \E c \in ReductionCells \ generator.visited :
            VisitOf(c, evaluate_grid_with_solve_controller(
                           Cleared(c), generator.ctl).status)

\* C26: the evaluation of the grid with one filled cell cleared is never
\* Invalid, so the reduction does not panic; each step of the loop visits
\* a cell not visited before, takes the clone on Complete(Unique) only and
\* leaves the grid unchanged on Complete(NotUnique); and the loop ends when
\* every cell has been visited.
C26_ReductionNeverPanics ==
    /\ [](/\ generator.pc # "panicked"
          /\ generator.pc = "returned" => generator.visited = ReductionCells
          /\ generator.num_hints
                 = Cardinality({c \in Cells : IsFixed(generator.grid.val[c])}))
    /\ [][IsVisit]_vars

\* The reduction under Difficulty::Hard returned after it had cleared a
\* cell and refused to clear another.
C26_Witness ==
    /\ generator.pc = "returned"
    /\ generator.ctl = Hard
    /\ \E c \in generator.visited : IsFixed(generator.grid.val[c])
    /\ \E c \in generator.visited : IsUnknown(generator.grid.val[c])


\* ------------------------------------------------------------------------
\* The recursive calls of bisect_possibility_groups.
\* ------------------------------------------------------------------------
\* The cells the faux line of a call on line l of g with cells_of_interest
\* is made of.
FauxLineCells(g, l, cells_of_interest) ==
    {line_get(l, faux_line_setup(g, l, cells_of_interest)[k].index) :
        k \in 1..Len(faux_line_setup(g, l, cells_of_interest))}

\* The grid the first recursive call is made on, and the grid it leaves for
\* the second one, after the split faux_line of line l of g.
GridOfInGroupCall(g, l, faux_line) == bisect_apply(g, l, faux_line).g

GridOfOutGroupCall(g, l, faux_line) ==
    bisect_possibility_groups(GridOfInGroupCall(g, l, faux_line), l,
                              group_indices(faux_line, TRUE)).g

\* The recursive call for one side of the split, made on the grid g, runs
\* on the cells of that side that are Unknown in g.
CallOnSide(g, l, faux_line, in_group) ==
    FauxLineCells(g, l, group_indices(faux_line, in_group))
        = {c \in GroupCells(faux_line, l, in_group) : IsUnknown(g.val[c])}

RecursionOnSides(g, l, faux_line) ==
    num_out_group(faux_line) > 0 =>
        /\ CallOnSide(GridOfInGroupCall(g, l, faux_line), l, faux_line, TRUE)
        /\ CallOnSide(GridOfOutGroupCall(g, l, faux_line), l, faux_line, FALSE)

\* C27: after a split by identify_and_process_possibility_groups on a
\* line, the recursive call for the in-group runs on exactly the Unknown
\* cells of the in-group and the one for the out-group on exactly those of
\* the out-group, whether or not the line has Fixed cells; and a call on a
\* line with two Unknown cells or fewer changes nothing.
C27_RecursionOnSubsets ==
    last.op = "identify_and_process_possibility_groups" =>
        /\ RecursionOnSides(Was, last.cell, FoundFauxLine(Was, last.cell))
        /\ Cardinality(FauxLineCells(Was, last.cell, 0..(N - 1))) <= 2 =>
               (Now = Was /\ last.digit = 0)


\* ------------------------------------------------------------------------
\* Propagation cell by cell.
\* ------------------------------------------------------------------------
\* g is a grid built from Grid::new by set calls of candidate digits: no
\* two Fixed peers hold one digit and the candidates of an Unknown cell are
\* the digits none of its peers is Fixed to.
IsBuilt(g) ==
    \A c \in Cells :
        IF IsFixed(g.val[c])
        THEN \A o \in Peers(c) : g.val[o] # g.val[c]
        ELSE g.val[c].poss
                 = {digit \in Digits :
                       \A o \in Peers(c) : g.val[o] # Fixed(digit)}

\* From g1 to g2 no Fixed cell has changed and no Unknown cell has gained a
\* candidate.
Monotone(g1, g2) ==
    \A c \in Cells :
        IF IsFixed(g1.val[c]) THEN g2.val[c] = g1.val[c]
        ELSE IsUnknown(g2.val[c]) => g2.val[c].poss \subseteq g1.val[c].poss

\* The grid search_hidden_single has made of g when its second loop is
\* through with the digits 1..k, with the counts of its first loop.
HiddenSingleAfter(g, counts, k) ==
    Loop(LAMBDA r, digit : hidden_single_set(r, digit, counts),
         NoChange(g), 1, k + 1).g

MonotoneSets(g, counts) ==
    \A k \in Digits : Monotone(HiddenSingleAfter(g, counts, k - 1),
                               HiddenSingleAfter(g, counts, k))

TechniqueOps ==
    {"search_single_possibility", "search_hidden_single",
     "identify_and_process_possibility_groups", "search_useful_constraint",
     "solve_line"}

\* C28: on a grid built by set calls of candidate digits, what solve_line
\* and each technique does to a line leaves every Fixed cell with its
\* digit and adds no candidate to an Unknown cell, and so does each set
\* call search_hidden_single makes.
C28_PropagationMonotone ==
    (last.op \in TechniqueOps /\ IsBuilt(Was)) =>
        /\ Monotone(Was, Now)
        /\ last.op = "search_hidden_single" =>
               MonotoneSets(Was, hidden_single_counts(Was, last.cell))


\* ------------------------------------------------------------------------
\* Soundness of a pass of solve_grid_no_guess.
\* ------------------------------------------------------------------------
\* The digits no peer of c holds in the matrix m.
FreeDigits(m, c) == {digit \in Digits : \A o \in Peers(c) : m[o] # digit}

\* An empty cell of m with the fewest free digits.
TightestCell(m) ==
    CHOOSE c \in Cells :
        /\ m[c] = 0
        /\ \A o \in Cells :
               m[o] = 0 =>
                   Cardinality(FreeDigits(m, c)) <= Cardinality(FreeDigits(m, o))

\* The matrix m is consistent with g: each cell of g is Fixed to the digit
\* of m or Unknown with it as a candidate.
ConsistentWith(m, g) == \A c \in Cells : Carries(g.val[c], m[c])

\* Every valid completion of the matrix m that is consistent with g1 is
\* consistent with g2: the completions are the matrices without an empty
\* cell that extend m and have no digit twice in a row, column or section.
RECURSIVE KeepsCompletions(_, _, _)
RECURSIVE KeepsCompletionsThrough(_, _, _, _)
KeepsCompletionsThrough(m, c, g1, g2) ==
    \A digit \in FreeDigits(m, c) \cap g1.val[c].poss :
        KeepsCompletions([m EXCEPT ![c] = digit], g1, g2)

KeepsCompletions(m, g1, g2) ==
    IF \A c \in Cells : m[c] # 0 THEN ConsistentWith(m, g2)
    ELSE KeepsCompletionsThrough(m, TightestCell(m), g1, g2)

\* The grid with every cell Fixed to its digit in the base solution.
BaseGrid ==
    [val |-> [c \in Cells |-> Fixed(BaseSolution[c + 1])],
     upd |-> [l \in Lines |-> FALSE]]

\* The completions are listed for grids with MaxHoles Unknown cells at
\* most.
MaxHoles == 45

NumUnknown(g) == Cardinality({c \in Cells : IsUnknown(g.val[c])})

\* C29: every valid completion of the grid that is consistent with it
\* before a pass of solve_grid_no_guess is consistent with it after the
\* pass: no technique has removed a candidate or fixed a digit that the
\* completion has (on the grids with MaxHoles Unknown cells at most).
C29_PropagationSound ==
    (last.op = "pass" /\ NumUnknown(Was) <= MaxHoles /\ NoClash(Givens(Was))) =>
        KeepsCompletions(Givens(Was), Was, Now)

\* A pass on a grid that has the base solution and another completion has
\* fixed a cell and taken a candidate from a cell that is still Unknown.
C29_Witness ==
    /\ last.op = "pass"
    /\ NumUnknown(Was) <= MaxHoles
    /\ NoClash(Givens(Was))
    /\ ConsistentWith([c \in Cells |-> BaseSolution[c + 1]], Was)
    /\ ~KeepsCompletions(Givens(Was), Was, BaseGrid)
    /\ \E c \in Cells : IsUnknown(Was.val[c]) /\ IsFixed(Now.val[c])
    /\ \E c \in Cells :
           /\ IsUnknown(Now.val[c])
           /\ Now.val[c].poss # Was.val[c].poss

\* ------------------------------------------------------------------------
\* The grid of a unique solution.
\* ------------------------------------------------------------------------
\* Every cell of g is Fixed and every row, column and section holds each
\* digit in exactly one cell.
IsSolved(g) ==
    /\ \A c \in Cells : IsFixed(g.val[c])
    /\ \A l \in Lines : \A digit \in Digits :
           Cardinality({c \in LineSet(l) : g.val[c] = Fixed(digit)}) = 1

\* The cells Fixed in g1 have the same value in g2.
KeepsFixed(g1, g2) ==
    \A c \in Cells : IsFixed(g1.val[c]) => g2.val[c] = g1.val[c]

\* C30: when solve with guessing enabled returns Complete(Unique) on a
\* grid built by set calls of candidate digits, all 81 cells of the grid
\* are Fixed, every row, column and section holds each digit once, and
\* every cell that was Fixed before the call holds the digit it held.
C30_UniqueResultIsSolution ==
    (/\ last.op = "Solve"
     /\ last.built
     /\ last.ctl.make_guesses
     /\ last.status = Complete("Unique")) =>
        /\ IsSolved(LastGrid)
        /\ KeepsFixed(LastGridBefore, LastGrid)

\* Solve returned Complete(Unique) on a built grid after guesses, with a
\* branch that was given up, and filled the Unknown cells.
C30_Witness ==
    /\ last.op = "Solve"
    /\ last.built
    /\ last.ctl.make_guesses
    /\ last.status = Complete("Unique")
    /\ last.st.guesses > 0
    /\ last.clones > 1
    /\ \E c \in Cells : IsUnknown(LastGridBefore.val[c])
    /\ IsSolved(LastGrid)

====
